---- MODULE Spec2Model ----
(***************************************************************************)
(* Model of the sensor helper core: the persistent serial session          *)
(* (helper_app/session.py), the command controller                         *)
(* (helper_app/controller.py) and the configurator state machines          *)
(* (helper_app/legacy/imu/sensor_config.py,                                *)
(* helper_app/legacy/accelerometer/accelerometer_sensor_config.py).        *)
(*                                                                         *)
(* Spec    : concurrent callers of SensorController / SerialSession on the *)
(*           asyncio event loop, the single-worker executor, the drain     *)
(*           threads and detect's private thread.                          *)
(* CfgSpec : one configure call at a time, from the controller through the *)
(*           configurator to the frames on the wire, against a sensor that *)
(*           may answer anything.                                          *)
(* TapSpec : configure_registers for every supported rate and a range of   *)
(*           tap requests.                                                 *)
(* IdSpec  : one detect_identity call, register by register, up to the     *)
(*           controller's DetectionResult.                                 *)
(* AutoSpec: one exit_auto or full_reset call, stage by stage, up to the   *)
(*           controller's CommandResult.                                   *)
(***************************************************************************)
EXTENDS Integers, Sequences, FiniteSets, TLC

None == "None"

\* ------------------------------------------------------------------ bounds
\* Total number of API calls made by all callers in one behaviour.
MaxCalls == 3

\* Concurrent callers (HTTP request handlers / GUI commands on the loop).
Tasks == {"t1", "t2"}

\* Serial ports the callers may name.
Ports == {"p1", "p2"}

\* ------------------------------------------------------- program constants
DEFAULT_BAUD_RATE == 460800

\* detect's open retry budget (max_retries).
max_retries == 3

\* The (port, baud) arguments callers pass to connect; baud 0 stands for the
\* falsy arguments (None, 0), for which connect uses the default.
ConnectArgs == {<<"p1", 0>>, <<"p1", 230400>>, <<"p2", 0>>}

\* target_baud = baud or self._settings.default_baud_rate
TargetBaud(b) == IF b = 0 THEN DEFAULT_BAUD_RATE ELSE b

RunOps == {"configure", "exit_auto", "full_reset", "check_auto_mode"}
ControllerOps == RunOps \cup {"detect"}
Kinds == ControllerOps \cup {"connect", "disconnect"}

DrainStates == {"top", "read", "stale"}

VARIABLES
    pc,          \* position of each caller's coroutine
    call,        \* the call each caller is in (or last made)
    result,      \* what the last call returned / raised to its caller
    obs,         \* observations about the current call (history)
    snap,        \* the session as the call found it when it took the lock (history)
    calls,       \* calls started so far
    sport,       \* SerialSession._port
    sbaud,       \* SerialSession._baud
    comm,        \* SerialSession._comm: NoComm or a Link [obj, port, baud, open]
    leaked,      \* session Links dropped while still open
    lockHolder,  \* SerialSession._lock owner
    lockQ,       \* SerialSession._lock waiters (FIFO)
    worker,      \* the executor's single worker thread: whose job it runs
    drainThread, \* SerialSession._drain_thread: "none" (None or dead) or its state
    orphans,     \* drain threads no longer referenced but still alive
    drainStop,   \* SerialSession._drain_stop
    fresh,       \* detect's private Link per caller: is it open
    tries,       \* detect's open attempts so far
    cpc,           \* position of the configure call being followed
    family,        \* which configurator class runs: "imu" or "accelerometer"
    sampling_rate, \* the rate argument, in 1/1000 Sps
    tap_value,     \* the tap argument: <<>> for None, <<v>> for the integer v
    wire,          \* command frames sent to the sensor so far, in order
    backup,        \* how flash_backup ended: "none", "ok" or "failed"
    settled,       \* how set_filter ended: "none", "ok", "timeout" or "failed" (history)
    success,       \* what the configurator's configure returned
    warnings,      \* the configurator's _warnings
    cres,          \* the CommandResult handed back by SensorController.configure
    ipc,           \* position of the detect_identity call being followed
    isensor,       \* whose detect_identity runs: "imu" or "accelerometer"
    widx,          \* identity register being read: 1..4 product id, 5..8 serial
    words,         \* identity words read so far, in register order
    idwire,        \* frames sent by the latest step of detect_identity
    info,          \* what detect_identity handed back
    dres,          \* the DetectionResult of SensorController.detect
    apc,           \* position of the exit_auto / full_reset call being followed
    aop,           \* which operation: "exit_auto" or "full_reset"
    asensor,       \* whose configurator runs it: "imu" or "accelerometer"
    persist_disable_auto, \* the persist argument
    awire,         \* command frames the operation has sent so far, in order
    awarnings,     \* the configurator's _warnings
    uart,          \* UART_CTRL accesses: last low byte read, writes, read-back (history)
    sub,           \* how the sub-procedures ended (history)
    phases,        \* the stages of full_reset gone through, in order (history)
    aret,          \* what exit_auto_mode / full_reset returned
    ares,          \* the CommandResult of SensorController.exit_auto / full_reset
    nth,           \* which exit_auto call of a row this is
    sane,          \* every answer of the row so far was that of a sound idle sensor (history)
    prev,          \* the CommandResult of the first exit_auto call of the row
    \* ---- one check_auto_mode call, followed read by read
    kpc,           \* idle / read / decide / ret / done
    ksensor,       \* "imu" or "vibration"
    attempt,       \* reads attempted so far
    auto_mode_reads,    \* full replies with the AUTO bit set
    valid_reads,        \* full replies with the AUTO bit clear
    streaming_detected, \* attempts counted as streaming
    kwire,         \* frames sent during the call
    noisy,         \* attempts that were too long, too short or raised (history)
    kret,          \* what check_auto_mode returned
    \* ---- one polling wait
    waited,        \* the wait run last: which, what its polls brought, frames, result
    \* ---- one flash_backup
    backed,        \* the flash_backup run last: whose, what the link did, frames, result
    \* ---- configure, then detect, on a device that keeps its registers
    keep,          \* stage, the identity words held at first, the device, words read
    \* ---- the _warnings list of one configurator
    wn,            \* family, last operation, the list, what was added and collected
    \* ---- one register read
    rd,            \* register, what arrived after the read frame, what _read_word made of it
    \* ---- the LogBroadcaster, its event loop and one worker thread
    lg             \* history, subscribers, queues, and where the loop and the worker are

\* the variables of the identity read
idVars == <<ipc, isensor, widx, words, idwire, info, dres>>

\* the variables of exit_auto and full_reset
autoVars == <<apc, aop, asensor, persist_disable_auto, awire, awarnings, uart, sub,
              phases, aret, ares, nth, sane, prev>>

\* the variables besides those of configure and of the session
\* the variables of check_auto_mode
chkVars == <<kpc, ksensor, attempt, auto_mode_reads, valid_reads, streaming_detected,
             kwire, noisy, kret>>

\* the variables of the single procedures followed on their own
restVars == <<chkVars, waited, backed, keep, wn, rd, lg>>

opVars == <<idVars, autoVars, restVars>>

\* the variables on the configurators' side
cfgVars == <<cpc, family, sampling_rate, tap_value, wire, backup, settled, success, warnings,
             cres, opVars>>

vars == <<pc, call, result, obs, snap, calls, sport, sbaud, comm, leaked, lockHolder,
          lockQ, worker, drainThread, orphans, drainStop, fresh, tries, cfgVars>>

sessVars == <<sport, sbaud, comm, leaked>>
drainVars == <<drainThread, orphans, drainStop>>
detVars == <<fresh, tries>>

NoCall == [kind |-> "none", port |-> None, baud |-> DEFAULT_BAUD_RATE]
NoObs == [opens |-> 0, closes |-> 0, io |-> FALSE, opRan |-> FALSE,
          raised |-> FALSE, reconnects |-> 0]
NoSnap == [same |-> FALSE, hadOpen |-> FALSE, noPort |-> FALSE]

\* CommandResult before any configure has returned
NoResult == [success |-> FALSE, requires_restart |-> FALSE, warning |-> FALSE]

\* no configure call is being followed
CfgIdle ==
    /\ cpc = "idle"
    /\ family = "none"
    /\ sampling_rate = 0
    /\ tap_value = <<>>
    /\ wire = <<>>
    /\ backup = "none"
    /\ settled = "none"
    /\ success = FALSE
    /\ warnings = {}
    /\ cres = NoResult

\* detect_identity has handed back nothing yet
NoInfo == [out |-> "none", product_id_raw |-> <<>>, serial_number |-> <<>>]

\* no detect_identity call is being followed
IdIdle ==
    /\ ipc = "idle"
    /\ isensor = "none"
    /\ widx = 0
    /\ words = <<>>
    /\ idwire = <<>>
    /\ info = NoInfo
    /\ dres = "none"

\* UART_CTRL not touched yet: nothing read (-1), nothing written, no
\* read-back that showed AUTO_START and UART_AUTO clear
NoUart == [read |-> -1, writes |-> {}, verified |-> FALSE]

\* no sub-procedure has run yet
NoSub == [exit |-> "none", backup |-> "none", flash_test |-> "none",
          software_reset |-> "none"]

\* no exit_auto / full_reset call is being followed
AutoIdle ==
    /\ apc = "idle"
    /\ aop = "none"
    /\ asensor = "none"
    /\ persist_disable_auto = FALSE
    /\ awire = <<>>
    /\ awarnings = {}
    /\ uart = NoUart
    /\ sub = NoSub
    /\ phases = <<>>
    /\ aret = FALSE
    /\ ares = NoResult
    /\ nth = 0
    /\ sane = TRUE
    /\ prev = NoResult

\* no check_auto_mode call is being followed
ChkIdle ==
    /\ kpc = "idle"
    /\ ksensor = "none"
    /\ attempt = 0
    /\ auto_mode_reads = 0
    /\ valid_reads = 0
    /\ streaming_detected = 0
    /\ kwire = <<>>
    /\ noisy = 0
    /\ kret = "none"

\* none of the single procedures is being followed
RestIdle ==
    /\ ChkIdle
    /\ waited = [fn |-> "none", rep |-> <<>>, frames |-> <<>>, ret |-> FALSE]
    /\ backed = [fn |-> "none", up |-> FALSE, rep |-> <<>>, frames |-> <<>>, ret |-> FALSE]
    /\ keep = [stage |-> "none", held |-> <<>>, dev |-> [window |-> 0, id |-> <<>>],
               rate |-> 0, read |-> <<>>]
    /\ wn = [fam |-> "none", op |-> "none", opn |-> 0, list |-> <<>>, added |-> <<>>,
             collected |-> <<>>, ncollect |-> 0, warning |-> {}]
    /\ rd = [a |-> 0, kind |-> "none", bytes |-> <<>>, out |-> "none", w |-> 0]
    /\ lg = [history |-> <<>>, subscribers |-> {}, queue |-> <<>>, next_id |-> 1,
             published |-> 0, lpc |-> "idle", lsid |-> 0, lsnap |-> <<>>, lentry |-> 0,
             llast |-> 0, wpc |-> "idle", wentry |-> 0, wlast |-> 0, wsize |-> 0,
             errors |-> 0]

\* self._comm = None
NoComm == [obj |-> FALSE, port |-> None, baud |-> DEFAULT_BAUD_RATE, open |-> FALSE]

\* SerialSession.__init__
Init ==
    /\ pc = [t \in Tasks |-> "idle"]
    /\ call = [t \in Tasks |-> NoCall]
    /\ result = [t \in Tasks |-> "none"]
    /\ obs = [t \in Tasks |-> NoObs]
    /\ snap = [t \in Tasks |-> NoSnap]
    /\ calls = 0
    /\ sport = None
    /\ sbaud = DEFAULT_BAUD_RATE
    /\ comm = NoComm
    /\ leaked = {}
    /\ lockHolder = None
    /\ lockQ = <<>>
    /\ worker = None
    /\ drainThread = "none"
    /\ orphans = [s \in DrainStates |-> 0]
    /\ drainStop = FALSE
    /\ fresh = [t \in Tasks |-> FALSE]
    /\ tries = [t \in Tasks |-> 0]
    /\ CfgIdle
    /\ IdIdle
    /\ AutoIdle
    /\ RestIdle

\* ------------------------------------------------------------------ helpers
\* SensorCommunication.is_open on the session's Link
CommOpen == comm.obj /\ comm.open

\* SerialSession.is_connected
is_connected == CommOpen

\* SensorCommunication(port, baud): a new, not yet opened Link
NewLink(p, b) == [obj |-> TRUE, port |-> p, baud |-> b, open |-> FALSE]

\* The join in _stop_drain_locked blocks the event loop thread: no coroutine
\* is resumed while some caller sits in that join.
JoinPcs == {"conn_join", "disc_join", "run_join"}

\* A call that has ended hands its result to the caller at once: "done" is
\* that instant, and nothing else moves until Return has taken it.
Quiet == \A u \in Tasks : pc[u] /= "done"
LoopFree == Quiet /\ \A u \in Tasks : pc[u] \notin JoinPcs

\* Variant: a lock that never makes anyone wait
LockAlwaysAvailable == TRUE

\* asyncio.Lock.acquire without suspending: unlocked and nobody waiting.
LockAvailable == lockHolder = None /\ lockQ = <<>>

\* A call ends: its coroutine returns (or raises) `res` to the caller.
Finish(t, res) ==
    /\ pc' = [pc EXCEPT ![t] = "done"]
    /\ result' = [result EXCEPT ![t] = res]

\* Variant: a lock that stays with its holder when the call ends
LockKept == UNCHANGED lockHolder

\* async with self._lock: __aexit__
Release == lockHolder' = None

\* _start_drain_locked: the state of the tracked drain thread afterwards
StartDrain(c, dt) ==
    IF ~c.obj \/ ~c.open THEN dt
    ELSE IF dt /= "none" THEN dt
    ELSE "top"

\* _stop_drain_locked when no live thread is tracked, or once its join is over
StopDrainNow ==
    /\ drainThread' = "none"
    /\ drainStop' = FALSE
    /\ UNCHANGED orphans

\* closing the session Link: readers blocked on it now sit on a closed port
CloseUnderReaders(dt) == IF dt = "read" THEN "stale" ELSE dt
OrphansAfterClose ==
    [s \in DrainStates |->
        CASE s = "read" -> 0
          [] s = "stale" -> orphans["stale"] + orphans["read"]
          [] OTHER -> orphans[s]]

\* Variant: a close that leaves the port open
CloseLinkLeavesOpen(c) == c

\* SensorCommunication.close
CloseLink(c) == [c EXCEPT !.open = FALSE]

\* a Link object the session stops referencing: still open, it stays open
Drop(c) == IF c.obj /\ c.open THEN {[port |-> c.port, baud |-> c.baud]} ELSE {}

\* What a call with arguments (p, b) finds when it has the lock: is the session
\* on an open Link to exactly p at b, is any Link open, is no port recorded.
Snapshot(p, b) ==
    [same |-> (comm.obj /\ comm.open /\ comm.port = p /\ comm.baud = b
               /\ sport = p /\ sbaud = b),
     hadOpen |-> (comm.obj /\ comm.open),
     noPort |-> (sport = None)]

\* What a controller method hands its caller when session.run raised `exc`:
\* configure / exit_auto / full_reset return CommandResult(False, str(exc)),
\* check_auto_mode returns False.
Raised(k, exc) == IF k = "check_auto_mode" THEN "False" ELSE exc

\* What the wrapped operation of each controller method can end with.
OpOutcomes(k) ==
    IF k = "check_auto_mode" THEN {"True", "False", "raise"}
    ELSE {"ok", "fail", "raise"}

\* ------------------------------------------------------------ drain threads
\* One step of _drain_loop from state st: the loop test, or the end of a read.
NextDrain(st) ==
    CASE st = "top" -> IF drainStop THEN {"none"}
                       ELSE IF CommOpen THEN {"read"} ELSE {"none"}
      [] st = "read" -> {"top"}
      [] st = "stale" -> {"none", "top"}
      [] OTHER -> {}

\* the drain thread self._drain_thread refers to
DrainLoop ==
    /\ Quiet
    /\ drainThread /= "none"
    /\ \E n \in NextDrain(drainThread) : drainThread' = n
    /\ UNCHANGED <<cfgVars, pc, call, result, obs, snap, calls, sessVars, lockHolder, lockQ,
                   worker, orphans, drainStop, detVars>>

\* Where a thread in a read (live or stale) is next seen: gone, or in its
\* next read; the end of one read, the loop test and the start of the next
\* read are taken together.
NextRead(st) ==
    UNION {IF n = "top" THEN NextDrain("top") ELSE {n} : n \in NextDrain(st)}

\* a drain thread whose join timed out: no longer referenced, still looping
OrphanLoop ==
    /\ Quiet
    /\ \E s \in DrainStates :
         /\ orphans[s] > 0
         /\ \E n \in NextRead(s) \ {s} :
              orphans' = IF n = "none" THEN [orphans EXCEPT ![s] = @ - 1]
                         ELSE [orphans EXCEPT ![s] = @ - 1, ![n] = @ + 1]
    /\ UNCHANGED <<cfgVars, pc, call, result, obs, snap, calls, sessVars, lockHolder, lockQ,
                   worker, drainThread, drainStop, detVars>>

\* ------------------------------------------------- SerialSession, under lock
\* _stop_drain_locked followed by what comes next at `c`; with a live thread
\* the caller first sits in join at `j`.
StopDrainBegin(t, j, c) ==
    IF drainThread /= "none"
    THEN /\ drainStop' = TRUE
         /\ UNCHANGED <<drainThread, orphans>>
         /\ pc' = [pc EXCEPT ![t] = j]
    ELSE /\ StopDrainNow
         /\ pc' = [pc EXCEPT ![t] = c]

\* Variant: connect that takes "already connected" from the port alone
ConnBodyPortOnly(t, k, p, b, o) ==
    IF comm.obj /\ sport = p /\ comm.open
    THEN /\ Release
         /\ Finish(t, IF k = "detect" THEN result[t] ELSE "ok")
         /\ obs' = [obs EXCEPT ![t] = o]
         /\ UNCHANGED <<sessVars, drainVars>>
    ELSE IF comm.obj
    THEN /\ StopDrainBegin(t, "conn_join", "conn_close")
         /\ lockHolder' = t
         /\ obs' = [obs EXCEPT ![t] = o]
         /\ UNCHANGED <<result, sessVars>>
    ELSE /\ sport' = p
         /\ sbaud' = b
         /\ comm' = NewLink(p, b)
         /\ pc' = [pc EXCEPT ![t] = "conn_open"]
         /\ lockHolder' = t
         /\ obs' = [obs EXCEPT ![t] = o]
         /\ UNCHANGED <<result, leaked, drainVars>>

\* Variant: connect that opens a new Link without recording port and baud
ConnBodyPortNotRecorded(t, k, p, b, o) ==
    IF comm.obj /\ sport = p /\ sbaud = b /\ comm.open
    THEN /\ Release
         /\ Finish(t, IF k = "detect" THEN result[t] ELSE "ok")
         /\ obs' = [obs EXCEPT ![t] = o]
         /\ UNCHANGED <<sessVars, drainVars>>
    ELSE IF comm.obj
    THEN /\ StopDrainBegin(t, "conn_join", "conn_close")
         /\ lockHolder' = t
         /\ obs' = [obs EXCEPT ![t] = o]
         /\ UNCHANGED <<result, sessVars>>
    ELSE /\ comm' = NewLink(p, b)
         /\ pc' = [pc EXCEPT ![t] = "conn_open"]
         /\ lockHolder' = t
         /\ obs' = [obs EXCEPT ![t] = o]
         /\ UNCHANGED <<result, sport, sbaud, leaked, drainVars>>

\* SerialSession.connect from the lock to its first suspension (or return).
ConnBody(t, k, p, b, o) ==
    IF comm.obj /\ sport = p /\ sbaud = b /\ comm.open
    THEN /\ Release
         /\ Finish(t, IF k = "detect" THEN result[t] ELSE "ok")
         /\ obs' = [obs EXCEPT ![t] = o]
         /\ UNCHANGED <<sessVars, drainVars>>
    ELSE IF comm.obj
    THEN /\ StopDrainBegin(t, "conn_join", "conn_close")
         /\ lockHolder' = t
         /\ obs' = [obs EXCEPT ![t] = o]
         /\ UNCHANGED <<result, sessVars>>
    ELSE /\ sport' = p
         /\ sbaud' = b
         /\ comm' = NewLink(p, b)
         /\ pc' = [pc EXCEPT ![t] = "conn_open"]
         /\ lockHolder' = t
         /\ obs' = [obs EXCEPT ![t] = o]
         /\ UNCHANGED <<result, leaked, drainVars>>

\* SerialSession.disconnect from the lock to its first suspension (or return).
DiscBody(t, k, o) ==
    IF comm.obj
    THEN /\ StopDrainBegin(t, "disc_join", "disc_close")
         /\ lockHolder' = t
         /\ obs' = [obs EXCEPT ![t] = o]
         /\ UNCHANGED <<result, sessVars>>
    ELSE /\ sport' = None
         /\ sbaud' = DEFAULT_BAUD_RATE
         /\ Release
         /\ IF k = "detect"
            THEN pc' = [pc EXCEPT ![t] = "det_sleep"] /\ UNCHANGED result
            ELSE Finish(t, "ok")
         /\ obs' = [obs EXCEPT ![t] = o]
         /\ UNCHANGED <<comm, leaked, drainVars>>

\* Variant: run that goes ahead on whatever Link object it holds
RunBodyNoReconnect(t, k, o) ==
    IF ~CommOpen /\ sport = None
    THEN /\ Release
         /\ Finish(t, Raised(k, "NotConnected"))
         /\ obs' = [obs EXCEPT ![t] = o]
         /\ UNCHANGED <<sessVars, drainVars>>
    ELSE /\ StopDrainBegin(t, "run_join", "run_op_q")
         /\ lockHolder' = t
         /\ obs' = [obs EXCEPT ![t] = o]
         /\ UNCHANGED <<result, sessVars>>

\* SerialSession.run from the lock to its first suspension (or raise).
RunBody(t, k, o) ==
    IF ~CommOpen
    THEN IF sport = None
         THEN /\ Release
              /\ Finish(t, Raised(k, "NotConnected"))
              /\ obs' = [obs EXCEPT ![t] = o]
              /\ UNCHANGED <<sessVars, drainVars>>
         ELSE /\ comm' = NewLink(sport, sbaud)
              /\ leaked' = leaked \cup Drop(comm)
              /\ pc' = [pc EXCEPT ![t] = "run_open"]
              /\ lockHolder' = t
              /\ obs' = [obs EXCEPT ![t] = o]
              /\ UNCHANGED <<result, sport, sbaud, drainVars>>
    ELSE /\ StopDrainBegin(t, "run_join", "run_op_q")
         /\ lockHolder' = t
         /\ obs' = [obs EXCEPT ![t] = o]
         /\ UNCHANGED <<result, sessVars>>

\* Entering a call: take the lock now, or queue behind its holder.
Enter(t, lockPc, p, b, body) ==
    IF LockAvailable
    THEN /\ body
         /\ snap' = [snap EXCEPT ![t] = Snapshot(p, b)]
         /\ UNCHANGED lockQ
    ELSE /\ pc' = [pc EXCEPT ![t] = lockPc]
         /\ lockQ' = Append(lockQ, t)
         /\ obs' = [obs EXCEPT ![t] = NoObs]
         /\ UNCHANGED <<result, snap, sessVars, lockHolder, drainVars>>

CanCall(t) == pc[t] = "idle" /\ calls < MaxCalls /\ LoopFree

\* SerialSession.connect(port, baud)
connect(t) ==
    /\ CanCall(t)
    /\ \E a \in ConnectArgs :
         LET p == a[1]
             b == TargetBaud(a[2])
         IN  /\ call' = [call EXCEPT ![t] = [kind |-> "connect", port |-> p, baud |-> b]]
             /\ Enter(t, "conn_lock", p, b, ConnBody(t, "connect", p, b, NoObs))
    /\ calls' = calls + 1
    /\ UNCHANGED <<cfgVars, worker, detVars>>

\* SerialSession.disconnect()
disconnect(t) ==
    /\ CanCall(t)
    /\ call' = [call EXCEPT ![t] = [NoCall EXCEPT !.kind = "disconnect"]]
    /\ Enter(t, "disc_lock", None, 0, DiscBody(t, "disconnect", NoObs))
    /\ calls' = calls + 1
    /\ UNCHANGED <<cfgVars, worker, detVars>>

\* SensorController.configure / exit_auto / full_reset / check_auto_mode:
\* each wraps its configurator call in SerialSession.run.
run(t) ==
    /\ CanCall(t)
    /\ \E k \in RunOps :
         /\ call' = [call EXCEPT ![t] = [NoCall EXCEPT !.kind = k]]
         /\ Enter(t, "run_lock", None, 0, RunBody(t, k, NoObs))
    /\ calls' = calls + 1
    /\ UNCHANGED <<cfgVars, worker, detVars>>

\* SensorController.detect up to its first suspension.
detect(t) ==
    /\ CanCall(t)
    /\ call' = [call EXCEPT ![t] = [kind |-> "detect", port |-> sport, baud |-> sbaud]]
    /\ IF sport = None
       THEN /\ Finish(t, "NotConnected")
            /\ obs' = [obs EXCEPT ![t] = NoObs]
            /\ UNCHANGED <<snap, sessVars, lockHolder, lockQ, drainVars>>
       ELSE Enter(t, "disc_lock", None, 0, DiscBody(t, "detect", NoObs))
    /\ calls' = calls + 1
    /\ UNCHANGED <<cfgVars, worker, detVars>>

\* A queued caller is handed the lock and runs on from there.
AcquireLock(t) ==
    /\ pc[t] \in {"conn_lock", "disc_lock", "run_lock"}
    /\ lockHolder = None
    /\ lockQ /= <<>>
    /\ Head(lockQ) = t
    /\ LoopFree
    /\ lockQ' = Tail(lockQ)
    /\ snap' = [snap EXCEPT ![t] = Snapshot(call[t].port, call[t].baud)]
    /\ CASE pc[t] = "conn_lock" ->
              ConnBody(t, call[t].kind, call[t].port, call[t].baud, obs[t])
         [] pc[t] = "disc_lock" -> DiscBody(t, call[t].kind, obs[t])
         [] pc[t] = "run_lock" -> RunBody(t, call[t].kind, obs[t])
    /\ UNCHANGED <<cfgVars, call, calls, worker, detVars>>

\* _stop_drain_locked: join(timeout=1.0) returns, because the thread ended or
\* because it is still blocked in a read when the second is over; then
\* self._drain_thread = None and self._drain_stop.clear().
JoinReturn(t) ==
    /\ Quiet
    /\ pc[t] \in JoinPcs
    /\ drainThread \in {"none", "read", "stale"}
    /\ orphans' = IF drainThread = "none" THEN orphans
                  ELSE [orphans EXCEPT ![drainThread] = @ + 1]
    /\ drainThread' = "none"
    /\ drainStop' = FALSE
    /\ pc' = [pc EXCEPT ![t] = CASE pc[t] = "conn_join" -> "conn_close"
                                 [] pc[t] = "disc_join" -> "disc_close"
                                 [] pc[t] = "run_join" -> "run_op_q"]
    /\ UNCHANGED <<cfgVars, call, result, obs, snap, calls, sessVars, lockHolder, lockQ,
                   worker, detVars>>

\* _close_locked: the executor runs self._comm.close, then self._comm = None,
\* and connect / disconnect carry on to their next suspension (or return).
ExecClose(t) ==
    /\ Quiet
    /\ pc[t] \in {"conn_close", "disc_close"}
    /\ worker = None
    /\ drainThread' = CloseUnderReaders(drainThread)
    /\ orphans' = OrphansAfterClose
    /\ leaked' = leaked \cup Drop(CloseLink(comm))
    /\ obs' = [obs EXCEPT ![t].closes = @ + 1]
    /\ IF pc[t] = "conn_close"
       THEN /\ sport' = call[t].port
            /\ sbaud' = call[t].baud
            /\ comm' = NewLink(call[t].port, call[t].baud)
            /\ pc' = [pc EXCEPT ![t] = "conn_open"]
            /\ UNCHANGED <<result, lockHolder>>
       ELSE /\ sport' = None
            /\ sbaud' = DEFAULT_BAUD_RATE
            /\ comm' = NoComm
            /\ Release
            /\ IF call[t].kind = "detect"
               THEN pc' = [pc EXCEPT ![t] = "det_sleep"] /\ UNCHANGED result
               ELSE Finish(t, "ok")
    /\ UNCHANGED <<cfgVars, call, snap, calls, lockQ, worker, drainStop, detVars>>

\* The executor runs self._comm.open for connect or run; the port may refuse.
\* On success _start_drain_locked follows; on failure the exception leaves
\* the call through the lock.
ExecOpen(t) ==
    /\ Quiet
    /\ pc[t] \in {"conn_open", "run_open"}
    /\ worker = None
    /\ obs' = [obs EXCEPT ![t].opens = @ + 1]
    /\ \E ok \in BOOLEAN :
         IF ok
         THEN /\ comm' = [comm EXCEPT !.open = TRUE]
              /\ drainThread' = StartDrain(comm', drainThread)
              /\ drainStop' = IF drainThread = "none" THEN FALSE ELSE drainStop
              /\ IF pc[t] = "conn_open"
                 THEN /\ Release
                      /\ Finish(t, IF call[t].kind = "detect" THEN result[t] ELSE "ok")
                 ELSE /\ pc' = [pc EXCEPT ![t] = "run_stop"]
                      /\ UNCHANGED <<result, lockHolder>>
         ELSE /\ Release
              /\ Finish(t, CASE call[t].kind = "detect" -> result[t]
                             [] call[t].kind = "connect" -> "OpenFailed"
                             [] OTHER -> Raised(call[t].kind, "OpenFailed"))
              /\ UNCHANGED <<comm, drainThread, drainStop>>
    /\ UNCHANGED <<cfgVars, call, snap, calls, sport, sbaud, leaked, lockQ, worker, orphans,
                   detVars>>

\* run, line 79 after a reconnect: _stop_drain_locked
RunStop(t) ==
    /\ pc[t] = "run_stop"
    /\ LoopFree
    /\ StopDrainBegin(t, "run_join", "run_op_q")
    /\ UNCHANGED <<cfgVars, call, result, obs, snap, calls, sessVars, lockHolder, lockQ,
                   worker, detVars>>

\* The executor's worker thread starts the wrapped operation on self._comm.
OpStart(t) ==
    /\ Quiet
    /\ pc[t] = "run_op_q"
    /\ worker = None
    /\ worker' = t
    /\ pc' = [pc EXCEPT ![t] = "run_op"]
    /\ obs' = [obs EXCEPT ![t].io = TRUE]
    /\ UNCHANGED <<cfgVars, call, result, snap, calls, sessVars, lockHolder, lockQ,
                   drainVars, detVars>>

\* The wrapped operation returns or raises.
OpEnd(t) ==
    /\ Quiet
    /\ pc[t] = "run_op"
    /\ worker = t
    /\ worker' = None
    /\ pc' = [pc EXCEPT ![t] = "run_fin"]
    /\ \E out \in OpOutcomes(call[t].kind) : result' = [result EXCEPT ![t] = out]
    /\ UNCHANGED <<cfgVars, call, obs, snap, calls, sessVars, lockHolder, lockQ,
                   drainVars, detVars>>

\* Variant: run that restarts the drain loop after a normal return only
RunFinallyOnReturnOnly(t) ==
    /\ pc[t] = "run_fin"
    /\ LoopFree
    /\ drainThread' = IF result[t] = "raise" THEN drainThread
                      ELSE StartDrain(comm, drainThread)
    /\ UNCHANGED drainStop
    /\ Release
    /\ Finish(t, IF result[t] = "raise" THEN Raised(call[t].kind, "OpError")
                 ELSE result[t])
    /\ obs' = [obs EXCEPT ![t].opRan = TRUE, ![t].raised = (result[t] = "raise")]
    /\ UNCHANGED <<cfgVars, call, snap, calls, sessVars, lockQ, worker, orphans, detVars>>

\* run's finally: _start_drain_locked, then the lock is released and the
\* controller method hands the outcome to its caller.
RunFinally(t) ==
    /\ pc[t] = "run_fin"
    /\ LoopFree
    /\ drainThread' = StartDrain(comm, drainThread)
    /\ drainStop' = IF CommOpen /\ drainThread = "none" THEN FALSE ELSE drainStop
    /\ Release
    /\ Finish(t, IF result[t] = "raise" THEN Raised(call[t].kind, "OpError")
                 ELSE result[t])
    /\ obs' = [obs EXCEPT ![t].opRan = TRUE, ![t].raised = (result[t] = "raise")]
    /\ UNCHANGED <<cfgVars, call, snap, calls, sessVars, lockQ, worker, orphans, detVars>>

\* ------------------------------------------------ SensorController.detect
\* asyncio.sleep(0.5) is over: _detect_with_fresh_connection goes to a thread
\* of the loop's default executor.
DetSleep(t) ==
    /\ pc[t] = "det_sleep"
    /\ LoopFree
    /\ pc' = [pc EXCEPT ![t] = "det_open"]
    /\ tries' = [tries EXCEPT ![t] = 0]
    /\ UNCHANGED <<cfgVars, call, result, obs, snap, calls, sessVars, lockHolder, lockQ,
                   worker, drainVars, fresh>>

\* Variant: a detect that could not open its Link returns without reconnecting
DetOpenFailureReturns(t) ==
    /\ Quiet
    /\ pc[t] = "det_open"
    /\ \E n \in 1..max_retries, ok \in BOOLEAN :
         /\ ~ok => n = max_retries
         /\ tries' = [tries EXCEPT ![t] = n]
         /\ IF ok
            THEN /\ fresh' = [fresh EXCEPT ![t] = TRUE]
                 /\ pc' = [pc EXCEPT ![t] = "det_io"]
                 /\ obs' = [obs EXCEPT ![t].io = TRUE]
                 /\ UNCHANGED result
            ELSE /\ pc' = [pc EXCEPT ![t] = "done"]
                 /\ result' = [result EXCEPT ![t] = "fail"]
                 /\ UNCHANGED <<fresh, obs>>
    /\ UNCHANGED <<cfgVars, call, snap, calls, sessVars, lockHolder, lockQ, worker, drainVars>>

\* The open loop of _detect_with_fresh_connection on detect's own Link: the
\* n-th attempt succeeds, or all max_retries attempts fail.  The attempts
\* touch nothing the session shares, so the loop is one step.
DetOpen(t) ==
    /\ Quiet
    /\ pc[t] = "det_open"
    /\ \E n \in 1..max_retries, ok \in BOOLEAN :
         /\ ~ok => n = max_retries
         /\ tries' = [tries EXCEPT ![t] = n]
         /\ IF ok
            THEN /\ fresh' = [fresh EXCEPT ![t] = TRUE]
                 /\ pc' = [pc EXCEPT ![t] = "det_io"]
                 /\ obs' = [obs EXCEPT ![t].io = TRUE]
                 /\ UNCHANGED result
            ELSE /\ pc' = [pc EXCEPT ![t] = "det_fin"]
                 /\ result' = [result EXCEPT ![t] = "fail"]
                 /\ UNCHANGED <<fresh, obs>>
    /\ UNCHANGED <<cfgVars, call, snap, calls, sessVars, lockHolder, lockQ, worker, drainVars>>

\* detect_identity on detect's own Link ends; finally: comm.close().
DetIoEnd(t) ==
    /\ Quiet
    /\ pc[t] = "det_io"
    /\ fresh' = [fresh EXCEPT ![t] = FALSE]
    /\ tries' = [tries EXCEPT ![t] = 0]
    /\ pc' = [pc EXCEPT ![t] = "det_fin"]
    /\ \E out \in {"ok", "fail"} : result' = [result EXCEPT ![t] = out]
    /\ UNCHANGED <<cfgVars, call, obs, snap, calls, sessVars, lockHolder, lockQ, worker,
                   drainVars>>

\* detect's finally: asyncio.sleep(0.3), then session.connect(port, baud);
\* an exception of that connect is logged and dropped.
DetReconnect(t) ==
    /\ pc[t] = "det_fin"
    /\ LoopFree
    /\ LET o == [obs[t] EXCEPT !.reconnects = @ + 1]
       IN  IF LockAvailable
           THEN /\ ConnBody(t, "detect", call[t].port, call[t].baud, o)
                /\ snap' = [snap EXCEPT ![t] = Snapshot(call[t].port, call[t].baud)]
                /\ UNCHANGED lockQ
           ELSE /\ pc' = [pc EXCEPT ![t] = "conn_lock"]
                /\ lockQ' = Append(lockQ, t)
                /\ obs' = [obs EXCEPT ![t] = o]
                /\ UNCHANGED <<result, snap, sessVars, lockHolder, drainVars>>
    /\ UNCHANGED <<cfgVars, call, calls, worker, detVars>>

\* The caller has its result; the coroutine is gone.
Return(t) ==
    /\ pc[t] = "done"
    /\ pc' = [pc EXCEPT ![t] = "idle"]
    /\ call' = [call EXCEPT ![t] = NoCall]
    /\ result' = [result EXCEPT ![t] = "none"]
    /\ obs' = [obs EXCEPT ![t] = NoObs]
    /\ snap' = [snap EXCEPT ![t] = NoSnap]
    /\ tries' = [tries EXCEPT ![t] = 0]
    /\ UNCHANGED <<cfgVars, calls, sessVars, lockHolder, lockQ, worker, drainVars, fresh>>

Next ==
    \/ \E t \in Tasks : Return(t)
    \/ \E t \in Tasks : connect(t)
    \/ \E t \in Tasks : disconnect(t)
    \/ \E t \in Tasks : run(t)
    \/ \E t \in Tasks : detect(t)
    \/ \E t \in Tasks : AcquireLock(t)
    \/ \E t \in Tasks : JoinReturn(t)
    \/ \E t \in Tasks : ExecClose(t)
    \/ \E t \in Tasks : ExecOpen(t)
    \/ \E t \in Tasks : RunStop(t)
    \/ \E t \in Tasks : OpStart(t)
    \/ \E t \in Tasks : OpEnd(t)
    \/ \E t \in Tasks : RunFinally(t)
    \/ \E t \in Tasks : DetSleep(t)
    \/ \E t \in Tasks : DetOpen(t)
    \/ \E t \in Tasks : DetIoEnd(t)
    \/ \E t \in Tasks : DetReconnect(t)
    \/ DrainLoop
    \/ OrphanLoop

Spec == Init /\ [][Next]_vars

\* What the event loop, the executor and the operating system do for caller
\* t sooner or later: resume its coroutine when the lock is handed over or a
\* future is done, run the job it queued, end its join after the timeout,
\* and (the wrapped operation terminating) finish its operation.
Progress(t) ==
    \/ Return(t)
    \/ AcquireLock(t)
    \/ JoinReturn(t)
    \/ ExecClose(t)
    \/ ExecOpen(t)
    \/ RunStop(t)
    \/ OpStart(t)
    \/ OpEnd(t)
    \/ RunFinally(t)
    \/ DetSleep(t)
    \/ DetOpen(t)
    \/ DetIoEnd(t)
    \/ DetReconnect(t)

\* Calls started in a behaviour followed to its end.
MaxLiveCalls == 2

\* the session's steps, with at most MaxLiveCalls calls started
LiveNext ==
    \/ \E t \in Tasks : Return(t)
    \/ \E t \in Tasks : calls < MaxLiveCalls /\ connect(t)
    \/ \E t \in Tasks : calls < MaxLiveCalls /\ disconnect(t)
    \/ \E t \in Tasks : calls < MaxLiveCalls /\ run(t)
    \/ \E t \in Tasks : calls < MaxLiveCalls /\ detect(t)
    \/ \E t \in Tasks : AcquireLock(t)
    \/ \E t \in Tasks : JoinReturn(t)
    \/ \E t \in Tasks : ExecClose(t)
    \/ \E t \in Tasks : ExecOpen(t)
    \/ \E t \in Tasks : RunStop(t)
    \/ \E t \in Tasks : OpStart(t)
    \/ \E t \in Tasks : OpEnd(t)
    \/ \E t \in Tasks : RunFinally(t)
    \/ \E t \in Tasks : DetSleep(t)
    \/ \E t \in Tasks : DetOpen(t)
    \/ \E t \in Tasks : DetIoEnd(t)
    \/ \E t \in Tasks : DetReconnect(t)
    \/ DrainLoop
    \/ OrphanLoop

\* The session with its scheduling: every caller's next step is taken in the
\* end, and the tracked drain thread keeps running.
LiveSpec ==
    /\ Init
    /\ [][LiveNext]_vars
    /\ \A t \in Tasks : WF_vars(Progress(t))
    /\ WF_vars(DrainLoop)

TypeOK ==
    /\ calls \in 0..MaxCalls
    /\ lockHolder \in Tasks \cup {None}
    /\ worker \in Tasks \cup {None}
    /\ drainThread \in DrainStates \cup {"none"}
    /\ \A s \in DrainStates : orphans[s] \in 0..MaxCalls
    /\ leaked = {}

\* ======================================================== the configurators
\* CfgSpec follows one configure call at a time from the controller into the
\* configurator and down to the frames it sends.  The sensor is free: every
\* read may bring any word, come back short, or raise.

\* Polls that fit into the timeout of one polling loop.
MaxPolls == 2

\* Rates are counted in 1/1000 Sps so that 62.5, 31.25 and 15.625 are integers.
Sps(n) == n * 1000

\* [0, a, d, 0x0D]: write d to address a, no reply expected
W(a, d) == <<0, a, d>>

\* [4, a, 0x00, 0x0D]: read the register at a, a 4-byte reply expected
R(a) == <<4, a, 0>>

\* What send_commands can hand back for a read: the 16-bit word of a full
\* reply, fewer than 4 bytes, or an exception (TimeoutError, serial error).
ReplyWords == {0, 1, 8, 32, 1024}
Replies == [k : {"word"}, w : ReplyWords] \cup {[k |-> "short", w |-> 0], [k |-> "raise", w |-> 0]}

\* The replies one procedure may consume: one per poll and one more.
ReplySeqs == [1..(MaxPolls + 1) -> Replies]

\* bit n of word w
Bit(w, n) == (w \div (2 ^ n)) % 2

\* ------------------------------------------------------ IMU configurator
DEFAULT_SAMPLING_RATE == 125

ImuRates ==
    {Sps(2000), Sps(1000), Sps(500), Sps(400), Sps(250), Sps(200), Sps(125), Sps(100),
     Sps(80), 62500, Sps(50), Sps(40), 31250, Sps(25), Sps(20), 15625}

\* SAMPLING_RATE_CONFIG[r] = (DOUT_RATE, minimum TAP)
SAMPLING_RATE_CONFIG(r) ==
    CASE r = Sps(2000) -> <<\h00, 0>>
      [] r = Sps(1000) -> <<\h01, 2>>
      [] r = Sps(500) -> <<\h02, 4>>
      [] r = Sps(400) -> <<\h08, 8>>
      [] r = Sps(250) -> <<\h03, 8>>
      [] r = Sps(200) -> <<\h09, 16>>
      [] r = Sps(125) -> <<\h04, 16>>
      [] r = Sps(100) -> <<\h0A, 32>>
      [] r = Sps(80) -> <<\h0B, 32>>
      [] r = 62500 -> <<\h05, 32>>
      [] r = Sps(50) -> <<\h0C, 64>>
      [] r = Sps(40) -> <<\h0D, 64>>
      [] r = 31250 -> <<\h06, 64>>
      [] r = Sps(25) -> <<\h0E, 128>>
      [] r = Sps(20) -> <<\h0F, 128>>
      [] r = 15625 -> <<\h07, 128>>

supported_taps == {0, 2, 4, 8, 16, 32, 64, 128}

Abs(x) == IF x < 0 THEN -x ELSE x

\* min(supported_taps, key=lambda x: abs(x - tap_value)): the first of the
\* nearest ones in list order, which is ascending
closest_tap(v) ==
    CHOOSE x \in supported_taps :
        \A y \in supported_taps :
            \/ Abs(x - v) < Abs(y - v)
            \/ Abs(x - v) = Abs(y - v) /\ x <= y

\* Variant: a tap left out is written as 0
TapValueZeroDefault(min_tap, tap) ==
    LET t1 == IF tap = <<>> THEN 0
              ELSE IF tap[1] < min_tap THEN min_tap ELSE tap[1]
    IN  IF t1 \in supported_taps THEN t1 ELSE closest_tap(t1)

\* Variant: a requested tap below the rate's minimum is taken as it is
TapValueNoMinimum(min_tap, tap) ==
    LET t1 == IF tap = <<>> THEN min_tap ELSE tap[1]
    IN  IF t1 \in supported_taps THEN t1 ELSE closest_tap(t1)

\* configure_registers, "Determine TAP value" and "Validate TAP value"
TapValue(min_tap, tap) ==
    LET t1 == IF tap = <<>> THEN min_tap
              ELSE IF tap[1] < min_tap THEN min_tap ELSE tap[1]
    IN  IF t1 \in supported_taps THEN t1 ELSE closest_tap(t1)

\* the register_writes list of configure_registers
\* Variant: the rate goes to 0xF5, a byte of a serial-number register
register_writes_over_serial(dout_rate, tap) ==
    << W(\hFE, \h01), W(\hF5, dout_rate), W(\h86, tap), W(\h88, \h03),
       W(\h8C, \h02), W(\h8D, \hF0), W(\h8F, \h70) >>

register_writes(dout_rate, tap) ==
    << W(\hFE, \h01), W(\h85, dout_rate), W(\h86, tap), W(\h88, \h03),
       W(\h8C, \h02), W(\h8D, \hF0), W(\h8F, \h70) >>

\* Variant: an unsupported rate is replaced by the default rate
imu_configure_registers_default_rate(up, rate, tap) ==
    LET r == IF rate \in ImuRates THEN rate ELSE Sps(DEFAULT_SAMPLING_RATE)
        cfg == SAMPLING_RATE_CONFIG(r)
    IN  IF ~up THEN [frames |-> <<>>, ret |-> FALSE]
        ELSE [frames |-> register_writes(cfg[1], TapValue(cfg[2], tap)), ret |-> TRUE]

\* SensorConfigurator.configure_registers; up: the link takes the writes
\* (otherwise _write_commands raises and the except returns False)
imu_configure_registers(up, rate, tap) ==
    IF rate \notin ImuRates THEN [frames |-> <<>>, ret |-> FALSE]
    ELSE LET cfg == SAMPLING_RATE_CONFIG(rate)
         IN  IF ~up THEN [frames |-> <<>>, ret |-> FALSE]
             ELSE [frames |-> register_writes(cfg[1], TapValue(cfg[2], tap)),
                   ret |-> TRUE]

\* the three 0xFF frames of reset_sensor
reset_frames == << W(\hFF, \hFF), W(\hFF, \hFF), W(\hFF, \hFF) >>

\* one poll of a register in window 1
PollFrames(a) == << W(\hFE, \h01), R(a) >>

\* Variant: a poll that raises ends the wait with False
RECURSIVE wait_gives_up_on_error(_, _)
wait_gives_up_on_error(rep, i) ==
    IF i > MaxPolls THEN [frames |-> <<>>, ret |-> FALSE]
    ELSE IF rep[i].k = "raise" THEN [frames |-> PollFrames(\h0A), ret |-> FALSE]
    ELSE IF rep[i].k = "word" /\ Bit(rep[i].w, 10) = 0
    THEN [frames |-> PollFrames(\h0A), ret |-> TRUE]
    ELSE LET rest == wait_gives_up_on_error(rep, i + 1)
         IN  [frames |-> PollFrames(\h0A) \o rest.frames, ret |-> rest.ret]

\* _wait_until_ready from poll i on: GLOB_CMD bit 10 clear ends it with True,
\* anything else (bit set, short reply, exception) is waited out.
RECURSIVE wait_until_ready(_, _)
wait_until_ready(rep, i) ==
    IF i > MaxPolls THEN [frames |-> <<>>, ret |-> FALSE]
    ELSE IF rep[i].k = "word" /\ Bit(rep[i].w, 10) = 0
    THEN [frames |-> PollFrames(\h0A), ret |-> TRUE]
    ELSE LET rest == wait_until_ready(rep, i + 1)
         IN  [frames |-> PollFrames(\h0A) \o rest.frames, ret |-> rest.ret]

\* The polling loop of flash_backup from poll i on: "cleared" when FLASH_BACKUP
\* (bit 3 of the low byte) reads 0, "raise" when a read raises, "timeout" when
\* the loop runs out; next is the index of the first reply not consumed.
RECURSIVE flash_poll(_, _)
flash_poll(rep, i) ==
    IF i > MaxPolls THEN [frames |-> <<>>, out |-> "timeout", next |-> i]
    ELSE IF rep[i].k = "raise"
    THEN [frames |-> PollFrames(\h0A), out |-> "raise", next |-> i + 1]
    ELSE IF rep[i].k = "word" /\ Bit(rep[i].w, 3) = 0
    THEN [frames |-> PollFrames(\h0A), out |-> "cleared", next |-> i + 1]
    ELSE LET rest == flash_poll(rep, i + 1)
         IN  [frames |-> PollFrames(\h0A) \o rest.frames, out |-> rest.out,
              next |-> rest.next]

\* Variant: the FLASH_BACKUP bit seen clear is taken for success
imu_flash_backup_without_diag(up, rep) ==
    IF ~up THEN [frames |-> <<>>, ret |-> FALSE]
    ELSE LET cmd == << W(\hFE, \h01), W(\h8A, \h08) >>
             poll == flash_poll(rep, 1)
         IN  [frames |-> cmd \o poll.frames, ret |-> poll.out = "cleared"]

\* SensorConfigurator.flash_backup: command, poll, then DIAG_STAT bit 0
imu_flash_backup(up, rep) ==
    IF ~up THEN [frames |-> <<>>, ret |-> FALSE]
    ELSE LET cmd == << W(\hFE, \h01), W(\h8A, \h08) >>
             poll == flash_poll(rep, 1)
             diag == rep[poll.next]
         IN  IF poll.out /= "cleared"
             THEN [frames |-> cmd \o poll.frames, ret |-> FALSE]
             ELSE [frames |-> cmd \o poll.frames \o << W(\hFE, \h00), R(\h04) >>,
                   ret |-> diag.k = "word" /\ Bit(diag.w, 0) = 0]

\* ------------------------------------------------ accelerometer configurator
AccRates == {Sps(100), Sps(200), Sps(500), Sps(1000)}

SPS_TO_SMPL_CTRL_H(r) ==
    CASE r = Sps(100) -> \h05
      [] r = Sps(200) -> \h04
      [] r = Sps(500) -> \h03
      [] r = Sps(1000) -> \h02

\* FILTER_CUTOFF_512TAPS[SPS_TO_FILTER_CUTOFF[r]]
filter_sel(r) ==
    CASE r = Sps(100) -> \h07
      [] r = Sps(200) -> \h08
      [] r = Sps(500) -> \h08
      [] r = Sps(1000) -> \h09

\* AccelerometerConfigurator.reset_sensor: its two _write_commands calls
acc_reset_frames == << W(\hFE, \h00), W(\h83, \h02), W(\hFE, \h01), W(\h88, \h00) >>

\* AccelerometerConfigurator.set_fixed_configuration
set_fixed_configuration(up) ==
    IF ~up THEN [frames |-> <<>>, ret |-> FALSE]
    ELSE [frames |-> << W(\hFE, \h01), W(\h88, \h03), W(\h8C, \h02), W(\h8D, \h47) >>,
          ret |-> TRUE]

\* AccelerometerConfigurator.set_output_rate
set_output_rate(up, rate) ==
    IF rate \notin AccRates THEN [frames |-> <<>>, ret |-> FALSE]
    ELSE IF ~up THEN [frames |-> <<>>, ret |-> FALSE]
    ELSE [frames |-> << W(\hFE, \h01), W(\h85, SPS_TO_SMPL_CTRL_H(rate)) >>,
          ret |-> TRUE]

\* _wait_for_filter_settle from poll i on: FILTER_STAT (bit 5) clear ends it
RECURSIVE wait_for_filter_settle(_, _)
wait_for_filter_settle(rep, i) ==
    IF i > MaxPolls THEN [frames |-> <<>>, ret |-> FALSE]
    ELSE IF rep[i].k = "word" /\ Bit(rep[i].w, 5) = 0
    THEN [frames |-> PollFrames(\h06), ret |-> TRUE]
    ELSE LET rest == wait_for_filter_settle(rep, i + 1)
         IN  [frames |-> PollFrames(\h06) \o rest.frames, ret |-> rest.ret]

\* AccelerometerConfigurator.set_filter
set_filter(up, rate, rep) ==
    IF rate \notin AccRates THEN [frames |-> <<>>, ret |-> FALSE]
    ELSE IF ~up THEN [frames |-> <<>>, ret |-> FALSE]
    ELSE LET settle == wait_for_filter_settle(rep, 1)
         IN  [frames |-> << W(\hFE, \h01), W(\h86, filter_sel(rate)) >> \o settle.frames,
              ret |-> settle.ret]

\* The polling loop of AccelerometerConfigurator.flash_backup from poll i on
RECURSIVE acc_flash_poll(_, _)
acc_flash_poll(rep, i) ==
    IF i > MaxPolls THEN [frames |-> <<>>, out |-> "timeout", next |-> i]
    ELSE IF rep[i].k = "raise"
    THEN [frames |-> PollFrames(\h0A), out |-> "raise", next |-> i + 1]
    ELSE IF rep[i].k = "word" /\ Bit(rep[i].w, 3) = 0
    THEN [frames |-> PollFrames(\h0A), out |-> "cleared", next |-> i + 1]
    ELSE LET rest == acc_flash_poll(rep, i + 1)
         IN  [frames |-> PollFrames(\h0A) \o rest.frames, out |-> rest.out,
              next |-> rest.next]

\* AccelerometerConfigurator.flash_backup
acc_flash_backup(up, rep) ==
    IF ~up THEN [frames |-> <<>>, ret |-> FALSE]
    ELSE LET cmd == << W(\hFE, \h01), W(\h8A, \h08) >>
             poll == acc_flash_poll(rep, 1)
             diag == rep[poll.next]
         IN  IF poll.out /= "cleared"
             THEN [frames |-> cmd \o poll.frames, ret |-> FALSE]
             ELSE [frames |-> cmd \o poll.frames \o << W(\hFE, \h00), R(\h04) >>,
                   ret |-> diag.k = "word" /\ Bit(diag.w, 0) = 0]

\* ------------------------------------------------------- configure, stepwise
\* the variables of the session part, which no configurator step touches
sessionVars == <<pc, call, result, obs, snap, calls, sport, sbaud, comm, leaked,
                 lockHolder, lockQ, worker, drainThread, orphans, drainStop, fresh,
                 tries>>

\* Rate arguments: every supported rate, and two that are not (0 stands for
\* None and the like).
RateArgs == ImuRates \cup {Sps(150), 0}
AccRateArgs == AccRates \cup {Sps(125), 0}
TapArgs == {-1, 0, 3, 16, 100}

\* SensorController.configure("imu", ...): _run reads sampling_rate (125.0 when
\* absent) and tap_value from kwargs and calls SensorConfigurator.configure,
\* which clears _warnings.
controller_configure ==
    /\ cpc = "idle"
    /\ \E given \in BOOLEAN, r \in RateArgs, tap \in {<<>>} \cup {<<v>> : v \in TapArgs} :
         /\ sampling_rate' = IF given THEN r ELSE Sps(DEFAULT_SAMPLING_RATE)
         /\ tap_value' = tap
    /\ family' = "imu"
    /\ cpc' = "reset"
    /\ warnings' = {}
    /\ UNCHANGED <<wire, backup, settled, success, cres, sessionVars, opVars>>

\* AccelerometerConfigurator.configure(sps_rate) on a new configurator
accelerometer_configure ==
    /\ cpc = "idle"
    /\ \E r \in AccRateArgs : sampling_rate' = r
    /\ tap_value' = <<>>
    /\ family' = "accelerometer"
    /\ cpc' = "reset"
    /\ warnings' = {}
    /\ UNCHANGED <<wire, backup, settled, success, cres, sessionVars, opVars>>

\* configure returns `ok` to its caller
ConfigureReturns(ok) ==
    /\ success' = ok
    /\ cpc' = "ret"

\* SensorConfigurator.configure: self.reset_sensor(); a write that raises
\* leaves configure through its except, the wait's outcome is not looked at.
ImuResetSensor ==
    /\ cpc = "reset"
    /\ family = "imu"
    /\ \E up \in BOOLEAN, rep \in ReplySeqs :
         IF up
         THEN /\ wire' = wire \o reset_frames \o wait_until_ready(rep, 1).frames
              /\ cpc' = "registers"
              /\ UNCHANGED success
         ELSE /\ ConfigureReturns(FALSE)
              /\ UNCHANGED wire
    /\ UNCHANGED <<family, sampling_rate, tap_value, backup, settled, warnings, cres, sessionVars, opVars>>

\* SensorConfigurator.configure: if not self.configure_registers(...): return False
ImuConfigureRegisters ==
    /\ cpc = "registers"
    /\ \E up \in BOOLEAN :
         LET done == imu_configure_registers(up, sampling_rate, tap_value)
         IN  /\ wire' = wire \o done.frames
             /\ IF done.ret
                THEN cpc' = "backup" /\ UNCHANGED success
                ELSE ConfigureReturns(FALSE)
    /\ UNCHANGED <<family, sampling_rate, tap_value, backup, settled, warnings, cres, sessionVars, opVars>>

\* SensorConfigurator.configure: if not self.flash_backup(): warn; return True
ImuFlashBackup ==
    /\ cpc = "backup"
    /\ family = "imu"
    /\ \E up \in BOOLEAN, rep \in ReplySeqs :
         LET done == imu_flash_backup(up, rep)
         IN  /\ wire' = wire \o done.frames
             /\ backup' = IF done.ret THEN "ok" ELSE "failed"
             /\ warnings' = IF done.ret THEN warnings
                            ELSE warnings \cup {"Flash backup failed during configuration"}
    /\ ConfigureReturns(TRUE)
    /\ UNCHANGED <<family, sampling_rate, tap_value, settled, cres, sessionVars, opVars>>

\* SensorController.configure, _run after configurator.configure: the
\* CommandResult, its warning taken from collect_warnings
ControllerConfigureResult ==
    /\ cpc = "ret"
    /\ family = "imu"
    /\ cres' = [success |-> success, requires_restart |-> success,
                warning |-> warnings /= {}]
    /\ warnings' = {}
    /\ cpc' = "done"
    /\ UNCHANGED <<family, sampling_rate, tap_value, wire, backup, settled, success, sessionVars, opVars>>

\* AccelerometerConfigurator.configure: self.reset_sensor()
AccResetSensor ==
    /\ cpc = "reset"
    /\ family = "accelerometer"
    /\ \E up \in BOOLEAN :
         IF up
         THEN /\ wire' = wire \o acc_reset_frames
              /\ cpc' = "fixed"
              /\ UNCHANGED success
         ELSE /\ ConfigureReturns(FALSE)
              /\ UNCHANGED wire
    /\ UNCHANGED <<family, sampling_rate, tap_value, backup, settled, warnings, cres, sessionVars, opVars>>

\* AccelerometerConfigurator.configure, step 1
AccSetFixedConfiguration ==
    /\ cpc = "fixed"
    /\ \E up \in BOOLEAN :
         LET done == set_fixed_configuration(up)
         IN  /\ wire' = wire \o done.frames
             /\ IF done.ret
                THEN cpc' = "rate" /\ UNCHANGED success
                ELSE ConfigureReturns(FALSE)
    /\ UNCHANGED <<family, sampling_rate, tap_value, backup, settled, warnings, cres, sessionVars, opVars>>

\* AccelerometerConfigurator.configure, step 2
AccSetOutputRate ==
    /\ cpc = "rate"
    /\ \E up \in BOOLEAN :
         LET done == set_output_rate(up, sampling_rate)
         IN  /\ wire' = wire \o done.frames
             /\ IF done.ret
                THEN cpc' = "filter" /\ UNCHANGED success
                ELSE ConfigureReturns(FALSE)
    /\ UNCHANGED <<family, sampling_rate, tap_value, backup, settled, warnings, cres, sessionVars, opVars>>

\* how a set_filter call ended: its write raised, its wait timed out, or
\* the filter settled
filter_outcome(up, done) ==
    IF ~up THEN "failed" ELSE IF done.ret THEN "ok" ELSE "timeout"

\* Variant: a set_filter that returns False ends configure with False.
AccSetFilterRequired ==
    /\ cpc = "filter"
    /\ \E up \in BOOLEAN, rep \in ReplySeqs :
         LET done == set_filter(up, sampling_rate, rep)
         IN  /\ wire' = wire \o done.frames
             /\ settled' = filter_outcome(up, done)
             /\ IF done.ret
                THEN cpc' = "backup" /\ UNCHANGED success
                ELSE ConfigureReturns(FALSE)
    /\ UNCHANGED <<family, sampling_rate, tap_value, backup, warnings, cres,
                   sessionVars, opVars>>

\* AccelerometerConfigurator.configure, step 3: a filter that did not settle
\* is logged and configure goes on
AccSetFilter ==
    /\ cpc = "filter"
    /\ \E up \in BOOLEAN, rep \in ReplySeqs :
         LET done == set_filter(up, sampling_rate, rep)
         IN  /\ wire' = wire \o done.frames
             /\ settled' = filter_outcome(up, done)
    /\ cpc' = "backup"
    /\ UNCHANGED <<family, sampling_rate, tap_value, backup, success, warnings, cres,
                   sessionVars, opVars>>

\* AccelerometerConfigurator.configure, step 4: if not self.flash_backup():
\* return False
AccFlashBackup ==
    /\ cpc = "backup"
    /\ family = "accelerometer"
    /\ \E up \in BOOLEAN, rep \in ReplySeqs :
         LET done == acc_flash_backup(up, rep)
         IN  /\ wire' = wire \o done.frames
             /\ backup' = IF done.ret THEN "ok" ELSE "failed"
             /\ ConfigureReturns(done.ret)
    /\ UNCHANGED <<family, sampling_rate, tap_value, settled, warnings, cres, sessionVars,
                   opVars>>

\* the accelerometer's configure hands its bool to the caller as it is
AccConfigureResult ==
    /\ cpc = "ret"
    /\ family = "accelerometer"
    /\ cpc' = "done"
    /\ UNCHANGED <<family, sampling_rate, tap_value, wire, backup, settled, success, warnings,
                   cres, sessionVars, opVars>>

\* The caller has the result; the configurator object is dropped.
ConfigureDone ==
    /\ cpc = "done"
    /\ cpc' = "idle"
    /\ family' = "none"
    /\ sampling_rate' = 0
    /\ tap_value' = <<>>
    /\ wire' = <<>>
    /\ backup' = "none"
    /\ settled' = "none"
    /\ success' = FALSE
    /\ warnings' = {}
    /\ cres' = NoResult
    /\ UNCHANGED <<sessionVars, opVars>>

CfgNext ==
    \/ controller_configure
    \/ accelerometer_configure
    \/ ImuResetSensor
    \/ ImuConfigureRegisters
    \/ ImuFlashBackup
    \/ ControllerConfigureResult
    \/ AccResetSensor
    \/ AccSetFixedConfiguration
    \/ AccSetOutputRate
    \/ AccSetFilter
    \/ AccFlashBackup
    \/ AccConfigureResult
    \/ ConfigureDone

CfgSpec == Init /\ [][CfgNext]_vars

CfgTypeOK ==
    /\ cpc \in {"idle", "reset", "registers", "fixed", "rate", "filter", "backup",
                "ret", "done"}
    /\ family \in {"none", "imu", "accelerometer"}
    /\ backup \in {"none", "ok", "failed"}
    /\ settled \in {"none", "ok", "timeout", "failed"}
    /\ success \in BOOLEAN
    /\ \A i \in 1..Len(wire) : wire[i][1] \in {0, 4}

\* ------------------------------------------------ the TAP byte on its own
\* TapSpec puts every supported rate together with every tap request of a
\* range that reaches below 0 and beyond the largest supported tap.
MaxTap == 130
TapRequests == (0 - 2)..MaxTap

\* SensorConfigurator.configure_registers(sampling_rate, tap_value) called on a
\* sensor that has been reset
configure_registers_call ==
    /\ cpc = "idle"
    /\ \E r \in ImuRates, v \in TapRequests :
         /\ sampling_rate' = r
         /\ tap_value' = <<v>>
    /\ family' = "imu"
    /\ cpc' = "registers"
    /\ UNCHANGED <<wire, backup, settled, success, warnings, cres, sessionVars, opVars>>

TapNext ==
    \/ configure_registers_call
    \/ ImuConfigureRegisters

TapSpec == Init /\ [][TapNext]_vars

\* ------------------------------------------------------- the identity read
\* IdSpec follows one detect_identity call: the IMU's from
\* SensorController.detect on its fresh connection, the accelerometer's called
\* on its configurator.

\* Identity words the sensor may hold: two NULs, "AA", and "A " (low byte
\* first).
IdWords == {\h0000, \h4141, \h2041}
IdReplies == [k : {"word"}, w : IdWords] \cup {[k |-> "short", w |-> 0], [k |-> "raise", w |-> 0]}

\* What a _wait_until_ready loop can meet: ready from poll n on; n beyond
\* MaxPolls is a sensor that stays busy (or silent) until the timeout.
ReadyFrom(n) == [i \in 1..(MaxPolls + 1) |-> [k |-> "word", w |-> IF i < n THEN 1024 ELSE 0]]
WaitSeqs == {ReadyFrom(n) : n \in 1..(MaxPolls + 1)}

PROD_ID_REGISTERS == << \h6A, \h6C, \h6E, \h70 >>
SERIAL_REGISTERS == << \h74, \h76, \h78, \h7A >>

\* the register of the i-th identity word
IdRegister(i) == IF i <= 4 THEN PROD_ID_REGISTERS[i] ELSE SERIAL_REGISTERS[i - 4]

\* _read_word(address, 0x01) meeting reply r: the word, None for a short
\* reply, or the exception of send_commands
read_word(a, r) ==
    [frames |-> PollFrames(a),
     out |-> IF r.k = "raise" THEN "raise" ELSE IF r.k = "short" THEN "None" ELSE "word",
     w |-> r.w]

\* SensorConfigurator._enter_configuration_mode; ret FALSE: a write raised
imu_enter_configuration_mode(up, rep) ==
    IF ~up THEN [frames |-> <<>>, ret |-> FALSE]
    ELSE [frames |-> << W(\hFE, \h00), W(\h83, \h02), W(\hFE, \h01), W(\h88, \h00) >>
                     \o wait_until_ready(rep, 1).frames,
          ret |-> TRUE]

\* One round of a register loop of SensorConfigurator.detect_identity: the
\* retry is taken when the read gave None and the list of the group
\* (product_words, serial_words) already holds a word.
imu_identity_word(i, r1, r2, up, rep) ==
    LET first == read_word(IdRegister(i), r1)
        group_words == IF i <= 4 THEN i - 1 ELSE i - 5
    IN  IF ~(first.out = "None" /\ group_words > 0) THEN first
        ELSE LET enter == imu_enter_configuration_mode(up, rep)
                 second == read_word(IdRegister(i), r2)
             IN  IF ~enter.ret
                 THEN [frames |-> first.frames \o enter.frames, out |-> "raise", w |-> 0]
                 ELSE [frames |-> first.frames \o enter.frames \o second.frames,
                       out |-> second.out, w |-> second.w]

\* One round of a register loop of AccelerometerConfigurator.detect_identity:
\* the retry is taken whenever the read gave None.
acc_identity_word(i, r1, r2, up) ==
    LET first == read_word(IdRegister(i), r1)
    IN  IF first.out /= "None" THEN first
        ELSE LET second == read_word(IdRegister(i), r2)
             IN  IF ~up
                 THEN [frames |-> first.frames, out |-> "raise", w |-> 0]
                 ELSE [frames |-> first.frames \o acc_reset_frames \o second.frames,
                       out |-> second.out, w |-> second.w]

\* the bytes of the words, low byte first (little_endian=True)
WordBytes(ws) ==
    [j \in 1..(2 * Len(ws)) |->
        IF j % 2 = 1 THEN ws[(j + 1) \div 2] % 256 ELSE ws[j \div 2] \div 256]

RECURSIVE LStrip(_, _)
LStrip(s, cs) == IF s /= <<>> /\ Head(s) \in cs THEN LStrip(Tail(s), cs) ELSE s

RECURSIVE RStrip(_, _)
RStrip(s, cs) ==
    IF s /= <<>> /\ s[Len(s)] \in cs THEN RStrip(SubSeq(s, 1, Len(s) - 1), cs) ELSE s

\* str.strip(chars)
Strip(s, cs) == RStrip(LStrip(s, cs), cs)

\* the characters str.strip() takes for whitespace, below 256
Whitespace == {9, 10, 11, 12, 13, 28, 29, 30, 31, 32, 133, 160}

NonNul(b) == b /= 0

\* SensorConfigurator._decode_ascii_words: NUL bytes are skipped, the rest
\* joined and stripped
imu_decode_ascii_words(ws) == Strip(SelectSeq(WordBytes(ws), NonNul), Whitespace)

\* AccelerometerConfigurator._decode_ascii_words: every byte is a character,
\* NULs are stripped at the ends only
acc_decode_ascii_words(ws) == Strip(WordBytes(ws), {0})

\* Variant: the identity counts only when both strings are long enough
identity_found_both(inf) ==
    /\ Len(Strip(inf.product_id_raw, Whitespace)) >= 4
    /\ Len(Strip(inf.serial_number, Whitespace)) >= 4

\* _detect_with_fresh_connection: the check that raises "Unable to determine
\* sensor identity from response." when it fails
identity_found(inf) ==
    ~(Len(Strip(inf.product_id_raw, Whitespace)) < 4
        /\ Len(Strip(inf.serial_number, Whitespace)) < 4)

\* _detect_with_fresh_connection: configurator = ImuConfigurator(comm);
\* info = configurator.detect_identity()
controller_detect_identity ==
    /\ ipc = "idle"
    /\ ipc' = "reset"
    /\ isensor' = "imu"
    /\ UNCHANGED <<widx, words, idwire, info, dres, sessionVars, cpc, family,
                   sampling_rate, tap_value, wire, backup, settled, success, warnings, cres, autoVars, restVars>>

\* AccelerometerConfigurator.detect_identity on a new configurator
accelerometer_detect_identity ==
    /\ ipc = "idle"
    /\ ipc' = "reset"
    /\ isensor' = "accelerometer"
    /\ UNCHANGED <<widx, words, idwire, info, dres, sessionVars, cpc, family,
                   sampling_rate, tap_value, wire, backup, settled, success, warnings, cres, autoVars, restVars>>

\* detect_identity leaves with `out`: "dict", "None" or "raise"
IdentityReturns(out, prod, ser) ==
    /\ info' = [out |-> out, product_id_raw |-> prod, serial_number |-> ser]
    /\ ipc' = "ret"

\* detect_identity up to its first register read: reset_sensor and
\* _enter_configuration_mode; a write that raises ends the call
IdEnterConfiguration ==
    /\ ipc = "reset"
    /\ \E up \in BOOLEAN, rep1 \in WaitSeqs, rep2 \in WaitSeqs :
         IF ~up
         THEN /\ IdentityReturns("raise", <<>>, <<>>)
              /\ UNCHANGED <<widx, idwire>>
         ELSE /\ idwire' = IF isensor = "imu"
                           THEN reset_frames \o wait_until_ready(rep1, 1).frames
                                \o imu_enter_configuration_mode(TRUE, rep2).frames
                           ELSE acc_reset_frames \o acc_reset_frames
              /\ widx' = 1
              /\ ipc' = "read"
              /\ UNCHANGED info
    /\ UNCHANGED <<isensor, words, dres, sessionVars, cpc, family, sampling_rate,
                   tap_value, wire, backup, settled, success, warnings, cres, autoVars, restVars>>

\* what a round of a register loop does with its outcome
IdTakeWord(step) ==
    /\ idwire' = step.frames
    /\ IF step.out = "word"
       THEN /\ words' = Append(words, step.w)
            /\ widx' = widx + 1
            /\ ipc' = IF widx = 8 THEN "finish" ELSE "read"
            /\ UNCHANGED info
       ELSE /\ IdentityReturns(step.out, <<>>, <<>>)
            /\ UNCHANGED <<words, widx>>

\* SensorConfigurator.detect_identity: one round of `for reg in ...`
ImuIdentityWord ==
    /\ ipc = "read"
    /\ isensor = "imu"
    /\ \E r1 \in IdReplies :
         \/ /\ ~(r1.k = "short" /\ widx \notin {1, 5})
            /\ IdTakeWord(imu_identity_word(widx, r1, r1, TRUE, ReadyFrom(1)))
         \/ /\ r1.k = "short" /\ widx \notin {1, 5}
            /\ \E r2 \in IdReplies, up \in BOOLEAN, rep \in WaitSeqs :
                 IdTakeWord(imu_identity_word(widx, r1, r2, up, rep))
    /\ UNCHANGED <<isensor, dres, sessionVars, cpc, family, sampling_rate, tap_value,
                   wire, backup, settled, success, warnings, cres, autoVars, restVars>>

\* AccelerometerConfigurator.detect_identity: one round of `for reg in ...`
AccIdentityWord ==
    /\ ipc = "read"
    /\ isensor = "accelerometer"
    /\ \E r1 \in IdReplies :
         \/ /\ r1.k /= "short"
            /\ IdTakeWord(acc_identity_word(widx, r1, r1, TRUE))
         \/ /\ r1.k = "short"
            /\ \E r2 \in IdReplies, up \in BOOLEAN :
                 IdTakeWord(acc_identity_word(widx, r1, r2, up))
    /\ UNCHANGED <<isensor, dres, sessionVars, cpc, family, sampling_rate, tap_value,
                   wire, backup, settled, success, warnings, cres, autoVars, restVars>>

\* detect_identity after the loops: both strings decoded, window 0 selected,
\* the dict returned
IdentityDecoded ==
    /\ ipc = "finish"
    /\ \E up \in BOOLEAN :
         IF ~up
         THEN /\ IdentityReturns("raise", <<>>, <<>>)
              /\ idwire' = <<>>
         ELSE /\ idwire' = << W(\hFE, \h00) >>
              /\ IF isensor = "imu"
                 THEN IdentityReturns("dict", imu_decode_ascii_words(SubSeq(words, 1, 4)),
                                      imu_decode_ascii_words(SubSeq(words, 5, 8)))
                 ELSE IdentityReturns("dict", acc_decode_ascii_words(SubSeq(words, 1, 4)),
                                      acc_decode_ascii_words(SubSeq(words, 5, 8)))
    /\ UNCHANGED <<isensor, widx, words, dres, sessionVars, cpc, family, sampling_rate,
                   tap_value, wire, backup, settled, success, warnings, cres, autoVars, restVars>>

\* SensorController.detect after detect_identity: `if not info`, the length
\* check, and the DetectionResult; any exception gives success=False
ControllerDetectResult ==
    /\ ipc = "ret"
    /\ isensor = "imu"
    /\ dres' = IF info.out = "dict" /\ identity_found(info) THEN "success" ELSE "failure"
    /\ ipc' = "done"
    /\ UNCHANGED <<isensor, widx, words, idwire, info, sessionVars, cpc, family,
                   sampling_rate, tap_value, wire, backup, settled, success, warnings, cres, autoVars, restVars>>

\* the accelerometer's detect_identity hands its dict or None to the caller
AccIdentityResult ==
    /\ ipc = "ret"
    /\ isensor = "accelerometer"
    /\ ipc' = "done"
    /\ UNCHANGED <<isensor, widx, words, idwire, info, dres, sessionVars, cpc, family,
                   sampling_rate, tap_value, wire, backup, settled, success, warnings, cres, autoVars, restVars>>

\* The caller has the result; the configurator object is dropped.
IdentityDone ==
    /\ ipc = "done"
    /\ ipc' = "idle"
    /\ isensor' = "none"
    /\ widx' = 0
    /\ words' = <<>>
    /\ idwire' = <<>>
    /\ info' = NoInfo
    /\ dres' = "none"
    /\ UNCHANGED <<sessionVars, cpc, family, sampling_rate, tap_value, wire, backup, settled,
                   success, warnings, cres, autoVars, restVars>>

IdNext ==
    \/ controller_detect_identity
    \/ accelerometer_detect_identity
    \/ IdEnterConfiguration
    \/ ImuIdentityWord
    \/ AccIdentityWord
    \/ IdentityDecoded
    \/ ControllerDetectResult
    \/ AccIdentityResult
    \/ IdentityDone

IdSpec == Init /\ [][IdNext]_vars

IdTypeOK ==
    /\ ipc \in {"idle", "reset", "read", "finish", "ret", "done"}
    /\ isensor \in {"none", "imu", "accelerometer"}
    /\ widx \in 0..9
    /\ Len(words) <= 8
    /\ info.out \in {"none", "dict", "None", "raise"}
    /\ dres \in {"none", "success", "failure"}

\* -------------------------------------------------- exit_auto and full_reset
\* AutoSpec follows one exit_auto or full_reset call at a time: the IMU's from
\* SensorController, the accelerometer's called on its configurator; an
\* exit_auto through the controller may be followed by a second one.

\* the variables no step of exit_auto / full_reset touches
notAutoVars == <<sessionVars, cpc, family, sampling_rate, tap_value, wire, backup, settled,
                 success, warnings, cres, idVars, restVars>>

\* What the reads of flash_test can bring: MSC_CTRL with bit 10 set or clear,
\* DIAG_STAT with FLASH_ERR (bit 2) set or clear, a short reply, an exception.
TestReplies == [k : {"word"}, w : {0, 4, 1024}] \cup {[k |-> "short", w |-> 0], [k |-> "raise", w |-> 0]}
TestSeqs == [1..(MaxPolls + 1) -> TestReplies]

\* result[-2] of a full reply
LowByte(w) == w % 256

\* uart_ctrl_low & 0xFC
ClearAuto(b) == b - (b % 4)

\* Variant: MODE_CTRL found in configuration mode is warned about as well
mode_read_unexpected(r) == r.k = "short" \/ Bit(r.w, 10) = 0

\* SensorConfigurator.exit_auto_mode: `if len(result) < 4` on the MODE_CTRL read
mode_read_incomplete(r) == r.k = "short"

\* SensorConfigurator.exit_auto_mode up to the persist branch: MODE_CTRL <- 0x02,
\* MODE_CTRL read, UART_CTRL(L) <- 0x00.  up1, up2: the link takes the first
\* and the second write; a raise leaves through the outer except.
imu_exit_auto_mode_begin(up1, r, up2) ==
    LET f1 == << W(\hFE, \h00), W(\h83, \h02) >>
        f2 == << W(\hFE, \h00), R(\h02) >>
        f3 == << W(\hFE, \h01), W(\h88, \h00) >>
    IN  IF ~up1 THEN [frames |-> <<>>, raised |-> TRUE, warn |-> FALSE, wrote |-> FALSE]
        ELSE IF r.k = "raise"
        THEN [frames |-> f1 \o f2, raised |-> TRUE, warn |-> FALSE, wrote |-> FALSE]
        ELSE IF ~up2
        THEN [frames |-> f1 \o f2, raised |-> TRUE, warn |-> mode_read_incomplete(r),
              wrote |-> FALSE]
        ELSE [frames |-> f1 \o f2 \o f3, raised |-> FALSE,
              warn |-> mode_read_incomplete(r), wrote |-> TRUE]

\* how far AccelerometerConfigurator.exit_auto_mode got before the persist branch
AccBegin(frames, out, writes, read, verified) ==
    [frames |-> frames, out |-> out, writes |-> writes, read |-> read,
     verified |-> verified]

\* AccelerometerConfigurator.exit_auto_mode up to the persist branch:
\* reset_sensor (which writes UART_CTRL(L) <- 0x00), MODE_CTRL read, UART_CTRL
\* read, UART_CTRL(L) <- low & 0xFC, UART_CTRL read-back.  out: "go" on, or
\* "False" returned, or "raise" (False through the except).  writes: pairs
\* <<low byte read last, byte written>>.
acc_exit_auto_mode_begin(up1, rm, ru, up2, rv) ==
    LET f_mode == << W(\hFE, \h00), R(\h02) >>
        f_uart == << W(\hFE, \h01), R(\h08) >>
        blind == {<<-1, 0>>}
        low == LowByte(ru.w)
        f_read == acc_reset_frames \o f_mode \o f_uart
        f_all == f_read \o << W(\hFE, \h01), W(\h88, ClearAuto(low)) >> \o f_uart
        rmw == blind \cup {<<low, ClearAuto(low)>>}
    IN  IF ~up1 THEN AccBegin(<<>>, "raise", {}, -1, FALSE)
        ELSE IF rm.k = "raise"
        THEN AccBegin(acc_reset_frames \o f_mode, "raise", blind, -1, FALSE)
        ELSE IF ru.k = "raise" THEN AccBegin(f_read, "raise", blind, -1, FALSE)
        ELSE IF ru.k = "short" THEN AccBegin(f_read, "False", blind, -1, FALSE)
        ELSE IF ~up2 THEN AccBegin(f_read, "raise", blind, low, FALSE)
        ELSE IF rv.k = "raise" THEN AccBegin(f_all, "raise", rmw, low, FALSE)
        ELSE IF rv.k = "short" THEN AccBegin(f_all, "False", rmw, low, FALSE)
        ELSE IF LowByte(rv.w) % 4 /= 0
        THEN AccBegin(f_all, "False", rmw, LowByte(rv.w), FALSE)
        ELSE AccBegin(f_all, "go", rmw, LowByte(rv.w), TRUE)

\* AccelerometerConfigurator.exit_auto_mode, the final verification after the
\* flash backup
acc_exit_auto_mode_end(rv) ==
    [frames |-> << W(\hFE, \h01), R(\h08) >>,
     out |-> IF rv.k = "raise" THEN "raise"
             ELSE IF rv.k = "word" /\ LowByte(rv.w) % 4 /= 0 THEN "False"
             ELSE "True"]

\* The polling loop of flash_test from poll i on: MSC_CTRL bit 10 clear ends it
RECURSIVE flash_test_poll(_, _)
flash_test_poll(rep, i) ==
    IF i > MaxPolls THEN [frames |-> <<>>, out |-> "timeout", next |-> i]
    ELSE IF rep[i].k = "raise"
    THEN [frames |-> PollFrames(\h02), out |-> "raise", next |-> i + 1]
    ELSE IF rep[i].k = "word" /\ Bit(rep[i].w, 10) = 0
    THEN [frames |-> PollFrames(\h02), out |-> "cleared", next |-> i + 1]
    ELSE LET rest == flash_test_poll(rep, i + 1)
         IN  [frames |-> PollFrames(\h02) \o rest.frames, out |-> rest.out,
              next |-> rest.next]

\* SensorConfigurator.flash_test: command, poll, DIAG_STAT bit 2, wait
flash_test(up, rep, wrep) ==
    IF ~up THEN [frames |-> <<>>, ret |-> FALSE]
    ELSE LET cmd == << W(\hFE, \h01), W(\h83, \h08) >>
             poll == flash_test_poll(rep, 1)
             diag == rep[poll.next]
             f_diag == cmd \o poll.frames \o << W(\hFE, \h00), R(\h04) >>
         IN  IF poll.out /= "cleared" THEN [frames |-> cmd \o poll.frames, ret |-> FALSE]
             ELSE IF diag.k = "raise" THEN [frames |-> f_diag, ret |-> FALSE]
             ELSE IF diag.k = "word" /\ Bit(diag.w, 2) = 1
             THEN [frames |-> f_diag, ret |-> FALSE]
             ELSE [frames |-> f_diag \o wait_until_ready(wrep, 1).frames, ret |-> TRUE]

\* SensorConfigurator.software_reset: SOFT_RST, then wait for ready
software_reset(up, rep) ==
    IF ~up THEN [frames |-> <<>>, ret |-> FALSE]
    ELSE LET wait == wait_until_ready(rep, 1)
         IN  [frames |-> << W(\hFE, \h01), W(\h8A, \h80) >> \o wait.frames,
              ret |-> wait.ret]

\* Variant: full_reset goes on whatever exit_auto_mode returned
full_reset_whatever_exit_auto(ok) == "reset"

\* full_reset: if not self.exit_auto_mode(persist_disable_auto=True): return False
full_reset_after_exit_auto(ok) == IF ok THEN "reset" ELSE "ret"

\* Variant: full_reset returns False when the flash test failed
full_reset_needs_flash_test(ok) == IF ok THEN "soft_reset" ELSE "ret"

\* SensorConfigurator.full_reset: a failed flash_test adds a warning and the
\* reset goes on
full_reset_after_flash_test(ok) == "soft_reset"

\* SensorController.exit_auto("imu", persist): _run builds a configurator and
\* calls exit_auto_mode(persist_disable_auto=persist)
controller_exit_auto ==
    /\ apc = "idle"
    /\ \E p \in BOOLEAN : persist_disable_auto' = p
    /\ aop' = "exit_auto"
    /\ asensor' = "imu"
    /\ apc' = "exit"
    /\ nth' = 1
    /\ UNCHANGED <<awire, awarnings, uart, sub, phases, aret, ares, sane, prev,
                   notAutoVars>>

\* AccelerometerConfigurator.exit_auto_mode(persist_disable_auto) on a new
\* configurator
accelerometer_exit_auto_mode ==
    /\ apc = "idle"
    /\ \E p \in BOOLEAN : persist_disable_auto' = p
    /\ aop' = "exit_auto"
    /\ asensor' = "accelerometer"
    /\ apc' = "exit"
    /\ nth' = 1
    /\ UNCHANGED <<awire, awarnings, uart, sub, phases, aret, ares, sane, prev,
                   notAutoVars>>

\* SensorController.full_reset("imu"): _run calls
\* full_reset(persist_disable_auto=True), which clears _warnings and starts
\* with exit_auto_mode(persist_disable_auto=True)
controller_full_reset ==
    /\ apc = "idle"
    /\ persist_disable_auto' = TRUE
    /\ aop' = "full_reset"
    /\ asensor' = "imu"
    /\ apc' = "exit"
    /\ awarnings' = {}
    /\ nth' = 1
    /\ UNCHANGED <<awire, uart, sub, phases, aret, ares, sane, prev, notAutoVars>>

\* AccelerometerConfigurator.full_reset(persist_disable_auto) on a new
\* configurator: exit_auto_mode comes first only when the argument is true
accelerometer_full_reset ==
    /\ apc = "idle"
    /\ \E p \in BOOLEAN :
         /\ persist_disable_auto' = p
         /\ apc' = IF p THEN "exit" ELSE "reset"
    /\ aop' = "full_reset"
    /\ asensor' = "accelerometer"
    /\ awarnings' = {}
    /\ nth' = 1
    /\ UNCHANGED <<awire, uart, sub, phases, aret, ares, sane, prev, notAutoVars>>

\* exit_auto_mode leaves with `out` ("True", "False", or "raise": False through
\* its except); inside full_reset the caller looks at the result
ExitAutoReturns(out, s) ==
    /\ sub' = [s EXCEPT !.exit = out]
    /\ phases' = Append(phases, "exit_auto")
    /\ IF aop = "exit_auto"
       THEN /\ aret' = (out = "True")
            /\ apc' = "ret"
       ELSE /\ apc' = full_reset_after_exit_auto(out = "True")
            /\ UNCHANGED aret

\* Variant: an exit_auto_mode that backs up to flash whatever persist says
ImuExitAutoBeginAlwaysPersists ==
    /\ apc = "exit"
    /\ asensor = "imu"
    /\ \E up1 \in BOOLEAN, r \in Replies, up2 \in BOOLEAN :
         LET done == imu_exit_auto_mode_begin(up1, r, up2)
         IN  /\ awire' = awire \o done.frames
             /\ awarnings' = IF done.warn THEN {"MODE_CTRL read response incomplete"}
                             ELSE {}
             /\ uart' = IF done.wrote
                        THEN [uart EXCEPT !.writes = @ \cup {<<uart.read, 0>>}]
                        ELSE uart
             /\ sane' = (sane /\ ~done.raised /\ r.k = "word" /\ Bit(r.w, 10) = 0)
             /\ IF done.raised
                THEN ExitAutoReturns("raise", sub)
                ELSE /\ apc' = "exit_backup"
                     /\ UNCHANGED <<sub, phases, aret>>
    /\ UNCHANGED <<aop, asensor, persist_disable_auto, ares, nth, prev, notAutoVars>>

\* SensorConfigurator.exit_auto_mode, first part
ImuExitAutoBegin ==
    /\ apc = "exit"
    /\ asensor = "imu"
    /\ \E up1 \in BOOLEAN, r \in Replies, up2 \in BOOLEAN :
         LET done == imu_exit_auto_mode_begin(up1, r, up2)
         IN  /\ awire' = awire \o done.frames
             /\ awarnings' = IF done.warn THEN {"MODE_CTRL read response incomplete"}
                             ELSE {}
             /\ uart' = IF done.wrote
                        THEN [uart EXCEPT !.writes = @ \cup {<<uart.read, 0>>}]
                        ELSE uart
             /\ sane' = (sane /\ ~done.raised /\ r.k = "word" /\ Bit(r.w, 10) = 0)
             /\ IF done.raised
                THEN ExitAutoReturns("raise", sub)
                ELSE /\ apc' = IF persist_disable_auto THEN "exit_backup" ELSE "exit_end"
                     /\ UNCHANGED <<sub, phases, aret>>
    /\ UNCHANGED <<aop, asensor, persist_disable_auto, ares, nth, prev, notAutoVars>>

\* SensorConfigurator.exit_auto_mode: if not self.flash_backup(): warn
ImuExitAutoBackup ==
    /\ apc = "exit_backup"
    /\ asensor = "imu"
    /\ \E up \in BOOLEAN, rep \in ReplySeqs :
         LET done == imu_flash_backup(up, rep)
         IN  /\ awire' = awire \o done.frames
             /\ sub' = [sub EXCEPT !.backup = IF done.ret THEN "ok" ELSE "failed"]
             /\ awarnings' = IF done.ret THEN awarnings
                             ELSE awarnings \cup {"Flash backup confirmation failed"}
             /\ sane' = (sane /\ done.ret
                           /\ \A i \in 1..flash_poll(rep, 1).next : rep[i].k = "word")
    /\ apc' = "exit_end"
    /\ UNCHANGED <<aop, asensor, persist_disable_auto, uart, phases, aret, ares, nth,
                   prev, notAutoVars>>

\* SensorConfigurator.exit_auto_mode, last part: MODE_CTRL read once more (its
\* exceptions swallowed), window 0 selected, True returned
ImuExitAutoEnd ==
    /\ apc = "exit_end"
    /\ asensor = "imu"
    /\ \E r \in Replies, up \in BOOLEAN :
         /\ awire' = awire \o << W(\hFE, \h00), R(\h02) >>
                           \o (IF up THEN << W(\hFE, \h00) >> ELSE <<>>)
         /\ sane' = (sane /\ up /\ r.k = "word" /\ Bit(r.w, 10) = 0)
         /\ ExitAutoReturns(IF up THEN "True" ELSE "raise", sub)
    /\ UNCHANGED <<aop, asensor, persist_disable_auto, awarnings, uart, ares, nth, prev,
                   notAutoVars>>

\* AccelerometerConfigurator.exit_auto_mode, first part
AccExitAutoBegin ==
    /\ apc = "exit"
    /\ asensor = "accelerometer"
    /\ \E up1 \in BOOLEAN, rm \in Replies, ru \in Replies, up2 \in BOOLEAN, rv \in Replies :
         LET done == acc_exit_auto_mode_begin(up1, rm, ru, up2, rv)
         IN  /\ awire' = awire \o done.frames
             /\ uart' = [read |-> done.read, writes |-> uart.writes \cup done.writes,
                         verified |-> done.verified]
             /\ IF done.out = "go"
                THEN IF persist_disable_auto
                     THEN /\ apc' = "exit_backup"
                          /\ UNCHANGED <<sub, phases, aret>>
                     ELSE ExitAutoReturns("True", sub)
                ELSE ExitAutoReturns(done.out, sub)
    /\ UNCHANGED <<aop, asensor, persist_disable_auto, awarnings, ares, nth, sane, prev,
                   notAutoVars>>

\* AccelerometerConfigurator.exit_auto_mode: if not self.flash_backup():
\* return False
AccExitAutoBackup ==
    /\ apc = "exit_backup"
    /\ asensor = "accelerometer"
    /\ \E up \in BOOLEAN, rep \in ReplySeqs :
         LET done == acc_flash_backup(up, rep)
         IN  /\ awire' = awire \o done.frames
             /\ IF done.ret
                THEN /\ sub' = [sub EXCEPT !.backup = "ok"]
                     /\ apc' = "exit_end"
                     /\ UNCHANGED <<phases, aret>>
                ELSE ExitAutoReturns("False", [sub EXCEPT !.backup = "failed"])
    /\ UNCHANGED <<aop, asensor, persist_disable_auto, awarnings, uart, ares, nth, sane,
                   prev, notAutoVars>>

\* AccelerometerConfigurator.exit_auto_mode, last part
AccExitAutoEnd ==
    /\ apc = "exit_end"
    /\ asensor = "accelerometer"
    /\ \E rv \in Replies :
         LET done == acc_exit_auto_mode_end(rv)
         IN  /\ awire' = awire \o done.frames
             /\ uart' = IF rv.k = "word" THEN [uart EXCEPT !.read = LowByte(rv.w)]
                        ELSE uart
             /\ ExitAutoReturns(done.out, sub)
    /\ UNCHANGED <<aop, asensor, persist_disable_auto, awarnings, ares, nth, sane, prev,
                   notAutoVars>>

\* SensorConfigurator.full_reset: self.reset_sensor(); a write that raises
\* ends full_reset with False
ImuFullResetSensor ==
    /\ apc = "reset"
    /\ asensor = "imu"
    /\ \E up \in BOOLEAN, rep \in WaitSeqs :
         IF up
         THEN /\ awire' = awire \o reset_frames \o wait_until_ready(rep, 1).frames
              /\ phases' = Append(phases, "reset")
              /\ apc' = "flash_test"
         ELSE /\ apc' = "ret"
              /\ UNCHANGED <<awire, phases>>
    /\ UNCHANGED <<aop, asensor, persist_disable_auto, awarnings, uart, sub, aret, ares,
                   nth, sane, prev, notAutoVars>>

\* SensorConfigurator.full_reset: if not self.flash_test(): warn
ImuFlashTest ==
    /\ apc = "flash_test"
    /\ \E up \in BOOLEAN, rep \in TestSeqs, wrep \in WaitSeqs :
         LET done == flash_test(up, rep, wrep)
         IN  /\ awire' = awire \o done.frames
             /\ sub' = [sub EXCEPT !.flash_test = IF done.ret THEN "ok" ELSE "failed"]
             /\ awarnings' = IF done.ret THEN awarnings
                             ELSE awarnings \cup {"Flash test reported an error"}
             /\ apc' = full_reset_after_flash_test(done.ret)
    /\ phases' = Append(phases, "flash_test")
    /\ UNCHANGED <<aop, asensor, persist_disable_auto, uart, aret, ares, nth, sane, prev,
                   notAutoVars>>

\* SensorConfigurator.full_reset: if not self.software_reset(): return False
ImuSoftwareReset ==
    /\ apc = "soft_reset"
    /\ \E up \in BOOLEAN, rep \in WaitSeqs :
         LET done == software_reset(up, rep)
         IN  /\ awire' = awire \o done.frames
             /\ sub' = [sub EXCEPT !.software_reset = IF done.ret THEN "ready" ELSE "failed"]
             /\ apc' = IF done.ret THEN "settle" ELSE "ret"
    /\ phases' = Append(phases, "hard_reset")
    /\ UNCHANGED <<aop, asensor, persist_disable_auto, awarnings, uart, aret, ares, nth,
                   sane, prev, notAutoVars>>

\* AccelerometerConfigurator.full_reset: reset_sensor, then FLASH_RST; a write
\* that raises ends full_reset with False
AccResetAndFlashReset ==
    /\ apc = "reset"
    /\ asensor = "accelerometer"
    /\ \E up1 \in BOOLEAN, up2 \in BOOLEAN :
         /\ awire' = awire \o (IF up1 THEN acc_reset_frames ELSE <<>>)
                           \o (IF up1 /\ up2 THEN << W(\hFE, \h01), W(\h8A, \h04) >>
                               ELSE <<>>)
         /\ phases' = phases \o (IF up1 THEN <<"reset">> ELSE <<>>)
                             \o (IF up1 /\ up2 THEN <<"hard_reset">> ELSE <<>>)
         /\ apc' = IF up1 /\ up2 THEN "settle" ELSE "ret"
    /\ UNCHANGED <<aop, asensor, persist_disable_auto, awarnings, uart, sub, aret, ares,
                   nth, sane, prev, notAutoVars>>

\* full_reset: the stabilization sleep (0.8 s IMU, 2.0 s accelerometer), then
\* return True
Stabilize ==
    /\ apc = "settle"
    /\ phases' = Append(phases, "delay")
    /\ aret' = TRUE
    /\ apc' = "ret"
    /\ UNCHANGED <<aop, asensor, persist_disable_auto, awire, awarnings, uart, sub, ares,
                   nth, sane, prev, notAutoVars>>

\* SensorController.exit_auto / full_reset, _run after the configurator call:
\* the CommandResult, its warning taken from collect_warnings
ControllerCommandResult ==
    /\ apc = "ret"
    /\ asensor = "imu"
    /\ ares' = [success |-> aret, requires_restart |-> aret /\ aop = "full_reset",
                warning |-> awarnings /= {}]
    /\ awarnings' = {}
    /\ apc' = "done"
    /\ UNCHANGED <<aop, asensor, persist_disable_auto, awire, uart, sub, phases, aret,
                   nth, sane, prev, notAutoVars>>

\* the accelerometer's exit_auto_mode / full_reset hands its bool to the caller
AccCommandReturn ==
    /\ apc = "ret"
    /\ asensor = "accelerometer"
    /\ apc' = "done"
    /\ UNCHANGED <<aop, asensor, persist_disable_auto, awire, awarnings, uart, sub,
                   phases, aret, ares, nth, sane, prev, notAutoVars>>

\* SensorController.exit_auto("imu", persist) called again right after the
\* first call has returned
ExitAutoAgain ==
    /\ apc = "done"
    /\ aop = "exit_auto"
    /\ asensor = "imu"
    /\ nth = 1
    /\ \E p \in BOOLEAN : persist_disable_auto' = p
    /\ prev' = ares
    /\ nth' = 2
    /\ apc' = "exit"
    /\ awire' = <<>>
    /\ awarnings' = {}
    /\ uart' = NoUart
    /\ sub' = NoSub
    /\ phases' = <<>>
    /\ aret' = FALSE
    /\ ares' = NoResult
    /\ UNCHANGED <<aop, asensor, sane, notAutoVars>>

\* The caller has the result; the configurator object is dropped.
AutoDone ==
    /\ apc = "done"
    /\ apc' = "idle"
    /\ aop' = "none"
    /\ asensor' = "none"
    /\ persist_disable_auto' = FALSE
    /\ awire' = <<>>
    /\ awarnings' = {}
    /\ uart' = NoUart
    /\ sub' = NoSub
    /\ phases' = <<>>
    /\ aret' = FALSE
    /\ ares' = NoResult
    /\ nth' = 0
    /\ sane' = TRUE
    /\ prev' = NoResult
    /\ UNCHANGED notAutoVars

AutoNext ==
    \/ controller_exit_auto
    \/ accelerometer_exit_auto_mode
    \/ controller_full_reset
    \/ accelerometer_full_reset
    \/ ImuExitAutoBegin
    \/ ImuExitAutoBackup
    \/ ImuExitAutoEnd
    \/ AccExitAutoBegin
    \/ AccExitAutoBackup
    \/ AccExitAutoEnd
    \/ ImuFullResetSensor
    \/ ImuFlashTest
    \/ ImuSoftwareReset
    \/ AccResetAndFlashReset
    \/ Stabilize
    \/ ControllerCommandResult
    \/ AccCommandReturn
    \/ ExitAutoAgain
    \/ AutoDone

AutoSpec == Init /\ [][AutoNext]_vars

AutoTypeOK ==
    /\ apc \in {"idle", "exit", "exit_backup", "exit_end", "reset", "flash_test",
                "soft_reset", "settle", "ret", "done"}
    /\ aop \in {"none", "exit_auto", "full_reset"}
    /\ asensor \in {"none", "imu", "accelerometer"}
    /\ persist_disable_auto \in BOOLEAN
    /\ sub.exit \in {"none", "True", "False", "raise"}
    /\ sub.backup \in {"none", "ok", "failed"}
    /\ sub.flash_test \in {"none", "ok", "failed"}
    /\ sub.software_reset \in {"none", "ready", "failed"}
    /\ aret \in BOOLEAN
    /\ nth \in 0..2
    /\ sane \in BOOLEAN

\* ------------------------------------------------------------ check_auto_mode
\* ChkSpec follows one check_auto_mode call at a time, read by read: the IMU's
\* five attempts at MODE_CTRL and its vote, the accelerometer's single read of
\* UART_CTRL.  The flushes before the first read send nothing.

\* `for attempt in range(5)`
CHECK_ATTEMPTS == 5

\* What a read attempt can bring: a full 4-byte reply, a reply with bytes in
\* excess (its last bytes read as a word), a short reply, an exception.
ChkWords == {0, 1, 3, 1024}
ChkReplies == [k : {"word", "long"}, w : ChkWords]
                  \cup {[k |-> "short", w |-> 0], [k |-> "raise", w |-> 0]}

\* Variant: the check stops the sampling before it reads MODE_CTRL
imu_check_frames_stopping == << W(\hFE, \h00), W(\h83, \h02), W(\hFE, \h00), R(\h02) >>

\* SensorConfigurator.check_auto_mode: the frames of one attempt
imu_check_frames == << W(\hFE, \h00), R(\h02) >>

\* AccelerometerConfigurator.check_auto_mode: the frames of its read
acc_check_frames == << W(\hFE, \h01), R(\h08) >>

\* SensorConfigurator.check_auto_mode, the body of the loop: what one attempt
\* adds to (auto_mode_reads, valid_reads, streaming_detected).  n: attempts
\* made before this one.  A short reply counts for nothing, an exception
\* only on the last attempt.
imu_check_classify(r, n) ==
    IF r.k = "word"
    THEN IF Bit(r.w, 10) = 1 THEN <<1, 0, 0>> ELSE <<0, 1, 0>>
    ELSE IF r.k = "long" THEN <<0, 0, 1>>
    ELSE IF r.k = "short" THEN <<0, 0, 0>>
    ELSE IF n < CHECK_ATTEMPTS - 1 THEN <<0, 0, 0>> ELSE <<0, 0, 1>>

\* Variant: two reads without the AUTO bit are trusted before two with it
imu_check_decide_valid_first(a, v, s) ==
    IF v >= 2 THEN "False"
    ELSE IF a >= 2 THEN "True"
    ELSE IF a >= 1 /\ s >= 2 THEN "True"
    ELSE IF s >= 3 /\ v = 0 THEN "True"
    ELSE IF v >= 1 /\ s = 0 THEN "False"
    ELSE IF a >= 1 THEN "True"
    ELSE IF v >= 1 THEN "False"
    ELSE IF s >= 1 THEN "True"
    ELSE "False"

\* SensorConfigurator.check_auto_mode, the decision after the loop
imu_check_decide(a, v, s) ==
    IF a >= 2 THEN "True"
    ELSE IF v >= 2 THEN "False"
    ELSE IF a >= 1 /\ s >= 2 THEN "True"
    ELSE IF s >= 3 /\ v = 0 THEN "True"
    ELSE IF v >= 1 /\ s = 0 THEN "False"
    ELSE IF a >= 1 THEN "True"
    ELSE IF v >= 1 THEN "False"
    ELSE IF s >= 1 THEN "True"
    ELSE "False"

\* AccelerometerConfigurator.check_auto_mode: a reply of four bytes or more
\* is decided on UART_AUTO and AUTO_START, anything else means auto mode
acc_check_decide(r) ==
    IF r.k \in {"word", "long"}
    THEN IF LowByte(r.w) % 2 = 1 /\ (LowByte(r.w) \div 2) % 2 = 1 THEN "True" ELSE "False"
    ELSE "True"

\* the variables no step of check_auto_mode touches
notChkVars == <<sessionVars, cpc, family, sampling_rate, tap_value, wire, backup, settled,
                success, warnings, cres, idVars, autoVars, waited, backed, keep, wn, rd, lg>>

\* SensorConfigurator.check_auto_mode is entered
imu_check_auto_mode ==
    /\ kpc = "idle"
    /\ kpc' = "read"
    /\ ksensor' = "imu"
    /\ UNCHANGED <<attempt, auto_mode_reads, valid_reads, streaming_detected, kwire,
                   noisy, kret, notChkVars>>

\* AccelerometerConfigurator.check_auto_mode is entered
accelerometer_check_auto_mode ==
    /\ kpc = "idle"
    /\ kpc' = "read"
    /\ ksensor' = "vibration"
    /\ UNCHANGED <<attempt, auto_mode_reads, valid_reads, streaming_detected, kwire,
                   noisy, kret, notChkVars>>

\* one turn of the IMU's loop.  up: the link took the frames (an exception
\* of the write leaves them unsent).
ImuCheckRead ==
    /\ kpc = "read"
    /\ ksensor = "imu"
    /\ attempt < CHECK_ATTEMPTS
    /\ \E r \in ChkReplies, up \in BOOLEAN :
          /\ ~up => r.k = "raise"
          /\ LET c == imu_check_classify(r, attempt)
             IN  /\ auto_mode_reads' = auto_mode_reads + c[1]
                 /\ valid_reads' = valid_reads + c[2]
                 /\ streaming_detected' = streaming_detected + c[3]
          /\ kwire' = IF up THEN kwire \o imu_check_frames ELSE kwire
          /\ noisy' = IF r.k = "word" THEN noisy ELSE noisy + 1
    /\ attempt' = attempt + 1
    /\ kpc' = IF attempt + 1 = CHECK_ATTEMPTS THEN "decide" ELSE "read"
    /\ UNCHANGED <<ksensor, kret, notChkVars>>

\* the IMU's decision once the loop is over
ImuCheckDecide ==
    /\ kpc = "decide"
    /\ kret' = imu_check_decide(auto_mode_reads, valid_reads, streaming_detected)
    /\ kpc' = "ret"
    /\ UNCHANGED <<ksensor, attempt, auto_mode_reads, valid_reads, streaming_detected,
                   kwire, noisy, notChkVars>>

\* the accelerometer's single read and its answer
AccCheckRead ==
    /\ kpc = "read"
    /\ ksensor = "vibration"
    /\ \E r \in ChkReplies, up \in BOOLEAN :
          /\ ~up => r.k = "raise"
          /\ kret' = acc_check_decide(r)
          /\ kwire' = IF up THEN kwire \o acc_check_frames ELSE kwire
          /\ noisy' = IF r.k \in {"word", "long"} THEN noisy ELSE noisy + 1
    /\ attempt' = attempt + 1
    /\ kpc' = "ret"
    /\ UNCHANGED <<ksensor, auto_mode_reads, valid_reads, streaming_detected, notChkVars>>

\* the caller has the answer; the next call starts from scratch
CheckDone ==
    /\ kpc = "ret"
    /\ kpc' = "idle"
    /\ ksensor' = "none"
    /\ attempt' = 0
    /\ auto_mode_reads' = 0
    /\ valid_reads' = 0
    /\ streaming_detected' = 0
    /\ kwire' = <<>>
    /\ noisy' = 0
    /\ kret' = "none"
    /\ UNCHANGED notChkVars

ChkNext ==
    \/ imu_check_auto_mode
    \/ accelerometer_check_auto_mode
    \/ ImuCheckRead
    \/ ImuCheckDecide
    \/ AccCheckRead
    \/ CheckDone

ChkSpec == Init /\ [][ChkNext]_vars

ChkTypeOK ==
    /\ kpc \in {"idle", "read", "decide", "ret"}
    /\ ksensor \in {"none", "imu", "vibration"}
    /\ attempt \in 0..CHECK_ATTEMPTS
    /\ auto_mode_reads + valid_reads + streaming_detected <= attempt
    /\ noisy <= attempt
    /\ kret \in {"none", "True", "False"}

\* ------------------------------------------------------------ the polling waits
\* WaitSpec runs one polling wait at a time against what its polls bring; the
\* timeout is MaxPolls polls.

\* AccelerometerConfigurator._wait_until_ready from poll i on: NOT_READY (bit 0
\* of the low byte of GLOB_CMD) clear ends it with True, anything else is
\* waited out.
RECURSIVE acc_wait_until_ready(_, _)
acc_wait_until_ready(rep, i) ==
    IF i > MaxPolls THEN [frames |-> <<>>, ret |-> FALSE]
    ELSE IF rep[i].k = "word" /\ Bit(rep[i].w, 0) = 0
    THEN [frames |-> PollFrames(\h0A), ret |-> TRUE]
    ELSE LET rest == acc_wait_until_ready(rep, i + 1)
         IN  [frames |-> PollFrames(\h0A) \o rest.frames, ret |-> rest.ret]

\* no wait has run
NoWait == [fn |-> "none", rep |-> <<>>, frames |-> <<>>, ret |-> FALSE]

\* the variables no wait touches
notWaitVars == <<sessionVars, cpc, family, sampling_rate, tap_value, wire, backup, settled,
                 success, warnings, cres, idVars, autoVars, chkVars, backed, keep, wn, rd, lg>>

\* SensorConfigurator._wait_until_ready
ImuWaitUntilReady ==
    /\ waited.fn = "none"
    /\ \E rep \in ReplySeqs :
          LET w == wait_until_ready(rep, 1)
          IN  waited' = [fn |-> "imu_wait_until_ready", rep |-> rep, frames |-> w.frames,
                       ret |-> w.ret]
    /\ UNCHANGED notWaitVars

\* AccelerometerConfigurator._wait_until_ready
AccWaitUntilReady ==
    /\ waited.fn = "none"
    /\ \E rep \in ReplySeqs :
          LET w == acc_wait_until_ready(rep, 1)
          IN  waited' = [fn |-> "acc_wait_until_ready", rep |-> rep, frames |-> w.frames,
                       ret |-> w.ret]
    /\ UNCHANGED notWaitVars

\* AccelerometerConfigurator._wait_for_filter_settle
AccWaitForFilterSettle ==
    /\ waited.fn = "none"
    /\ \E rep \in ReplySeqs :
          LET w == wait_for_filter_settle(rep, 1)
          IN  waited' = [fn |-> "wait_for_filter_settle", rep |-> rep, frames |-> w.frames,
                       ret |-> w.ret]
    /\ UNCHANGED notWaitVars

\* the wait has returned to its caller
WaitReturn ==
    /\ waited.fn # "none"
    /\ waited' = NoWait
    /\ UNCHANGED notWaitVars

WaitNext ==
    \/ ImuWaitUntilReady
    \/ AccWaitUntilReady
    \/ AccWaitForFilterSettle
    \/ WaitReturn

WaitSpec == Init /\ [][WaitNext]_vars

\* --------------------------------------------------------------- flash_backup
\* BackupSpec runs one flash_backup at a time against what the link does: up,
\* whether it takes the command; rep, what the polls and the DIAG_STAT read
\* bring.  The 5 s timeout is MaxPolls polls.

\* no flash_backup has run
NoBackup == [fn |-> "none", up |-> FALSE, rep |-> <<>>, frames |-> <<>>, ret |-> FALSE]

\* the variables no flash_backup touches
notBackupVars == <<sessionVars, cpc, family, sampling_rate, tap_value, wire, backup, settled,
                   success, warnings, cres, idVars, autoVars, chkVars, waited, keep, wn, rd, lg>>

\* SensorConfigurator.flash_backup
imu_flash_backup_call ==
    /\ backed.fn = "none"
    /\ \E up \in BOOLEAN, rep \in ReplySeqs :
          LET b == imu_flash_backup(up, rep)
          IN  backed' = [fn |-> "imu", up |-> up, rep |-> rep, frames |-> b.frames,
                         ret |-> b.ret]
    /\ UNCHANGED notBackupVars

\* AccelerometerConfigurator.flash_backup
acc_flash_backup_call ==
    /\ backed.fn = "none"
    /\ \E up \in BOOLEAN, rep \in ReplySeqs :
          LET b == acc_flash_backup(up, rep)
          IN  backed' = [fn |-> "vibration", up |-> up, rep |-> rep, frames |-> b.frames,
                         ret |-> b.ret]
    /\ UNCHANGED notBackupVars

\* flash_backup has returned to its caller
FlashBackupReturn ==
    /\ backed.fn # "none"
    /\ backed' = NoBackup
    /\ UNCHANGED notBackupVars

BackupNext ==
    \/ imu_flash_backup_call
    \/ acc_flash_backup_call
    \/ FlashBackupReturn

BackupSpec == Init /\ [][BackupNext]_vars

\* ------------------------------------------------- configure, then detect
\* KeepSpec follows the IMU's configure and the detect_identity after it on a
\* device that answers every read from its registers: the frames the two
\* calls write are applied to the device's window and identity registers.

\* the byte addresses of the identity registers in window 1
IdentityBytes == (\h6A..\h71) \cup (\h74..\h7B)

\* the identity word a byte address belongs to
IdIndex(a) == IF a <= \h71 THEN ((a - \h6A) \div 2) + 1 ELSE ((a - \h74) \div 2) + 5

\* What the device may hold in its eight identity words.
HeldWords == {[i \in 1..8 |-> \h4141], [i \in 1..8 |-> \h3030 + i]}

\* The device takes a frame: a write to 0x7E selects the window, a write to
\* a byte of an identity register in window 1 replaces that byte.
DevFrame(d, f) ==
    IF f[1] # 0 \/ f[2] < \h80 THEN d
    ELSE IF f[2] = \hFE THEN [d EXCEPT !.window = f[3]]
    ELSE IF d.window = 1 /\ (f[2] - \h80) \in IdentityBytes
    THEN LET a == f[2] - \h80
             i == IdIndex(a)
             w == d.id[i]
         IN  [d EXCEPT !.id[i] = IF a % 2 = 0 THEN (w \div 256) * 256 + f[3]
                                 ELSE f[3] * 256 + (w % 256)]
    ELSE d

\* the device takes the frames fr from the n-th on
RECURSIVE DevApply(_, _, _)
DevApply(d, fr, n) ==
    IF n > Len(fr) THEN d ELSE DevApply(DevFrame(d, fr[n]), fr, n + 1)

\* the device's full reply to a read of register a
DevRead(d, a) ==
    [k |-> "word",
     w |-> IF d.window = 1 /\ a \in IdentityBytes THEN d.id[IdIndex(a)] ELSE 0]

\* nothing followed yet
NoKeep == [stage |-> "none", held |-> <<>>, dev |-> [window |-> 0, id |-> <<>>],
           rate |-> 0, read |-> <<>>]

\* the variables no step here touches
notKeepVars == <<sessionVars, cpc, family, sampling_rate, tap_value, wire, backup, settled,
                 success, warnings, cres, idVars, autoVars, chkVars, waited, backed, wn, rd, lg>>

\* a device with its identity words, before configure
KeepDevice ==
    /\ keep.stage = "none"
    /\ \E ws \in HeldWords :
          keep' = [keep EXCEPT !.stage = "held", !.held = ws, !.dev.id = ws]
    /\ UNCHANGED notKeepVars

\* SensorConfigurator.configure: reset_sensor
KeepReset ==
    /\ keep.stage = "held"
    /\ \E up \in BOOLEAN, rep \in WaitSeqs :
          IF up
          THEN keep' = [keep EXCEPT
                          !.stage = "registers",
                          !.dev = DevApply(keep.dev, reset_frames \o wait_until_ready(rep, 1).frames, 1)]
          ELSE keep' = [keep EXCEPT !.stage = "configured"]
    /\ UNCHANGED notKeepVars

\* SensorConfigurator.configure: configure_registers
KeepConfigureRegisters ==
    /\ keep.stage = "registers"
    /\ \E up \in BOOLEAN, rate \in ImuRates, tap \in {<<>>} \cup {<<v>> : v \in TapArgs} :
          LET done == imu_configure_registers(up, rate, tap)
          IN  keep' = [keep EXCEPT
                         !.stage = IF done.ret THEN "backup" ELSE "configured",
                         !.rate = rate,
                         !.dev = DevApply(keep.dev, done.frames, 1)]
    /\ UNCHANGED notKeepVars

\* SensorConfigurator.configure: flash_backup, and the return
KeepFlashBackup ==
    /\ keep.stage = "backup"
    /\ \E up \in BOOLEAN, rep \in ReplySeqs :
          keep' = [keep EXCEPT !.stage = "configured",
                               !.dev = DevApply(keep.dev, imu_flash_backup(up, rep).frames, 1)]
    /\ UNCHANGED notKeepVars

\* SensorConfigurator.detect_identity right after configure: reset_sensor and
\* _enter_configuration_mode
KeepDetectIdentity ==
    /\ keep.stage = "configured"
    /\ \E up \in BOOLEAN, rep1 \in WaitSeqs, rep2 \in WaitSeqs :
          IF up
          THEN keep' = [keep EXCEPT
                          !.stage = "reading",
                          !.dev = DevApply(keep.dev,
                                           reset_frames \o wait_until_ready(rep1, 1).frames
                                               \o imu_enter_configuration_mode(TRUE, rep2).frames,
                                           1)]
          ELSE keep' = [keep EXCEPT !.stage = "detected"]
    /\ UNCHANGED notKeepVars

\* one turn of the register loops of detect_identity, the _read_word
\* answered by the device
KeepReadWord ==
    /\ keep.stage = "reading"
    /\ Len(keep.read) < 8
    /\ LET i == Len(keep.read) + 1
           r == DevRead(DevFrame(keep.dev, W(\hFE, \h01)), IdRegister(i))
           word == imu_identity_word(i, r, r, TRUE, ReadyFrom(1))
       IN  keep' = [keep EXCEPT !.dev = DevApply(keep.dev, word.frames, 1),
                                !.read = Append(keep.read, word.w)]
    /\ UNCHANGED notKeepVars

\* detect_identity goes back to window 0 and returns its dict
KeepDetectReturn ==
    /\ keep.stage = "reading"
    /\ Len(keep.read) = 8
    /\ keep' = [keep EXCEPT !.stage = "detected", !.dev = DevFrame(keep.dev, W(\hFE, \h00))]
    /\ UNCHANGED notKeepVars

\* the next device
KeepDone ==
    /\ keep.stage = "detected"
    /\ keep' = NoKeep
    /\ UNCHANGED notKeepVars

KeepNext ==
    \/ KeepDevice
    \/ KeepReset
    \/ KeepConfigureRegisters
    \/ KeepFlashBackup
    \/ KeepDetectIdentity
    \/ KeepReadWord
    \/ KeepDetectReturn
    \/ KeepDone

KeepSpec == Init /\ [][KeepNext]_vars

\* ------------------------------------------------------------------ warnings
\* WarnSpec follows the _warnings list of one configurator through the
\* operations called on it and the collect_warnings calls between them.  A
\* warning is kept with the number of the operation that added it (history).

\* operations followed on one configurator
MaxOps == 3

\* the operations whose CommandResult carries the collected warning
WarnOps == {"configure", "exit_auto_mode", "full_reset"}

\* Variant: only full_reset empties the list when it starts
clears_full_reset_only(fam, op) == op = "full_reset"

\* `self._warnings.clear()` at the start of the operation: the IMU's three,
\* the accelerometer's full_reset only
clears_warnings(fam, op) == fam = "imu" \/ op = "full_reset"

\* the sub-sequences of s, order kept
RECURSIVE SubSeqs(_)
SubSeqs(s) ==
    IF s = <<>> THEN {<<>>}
    ELSE LET rest == SubSeqs(Tail(s))
         IN  rest \cup {<<Head(s)>> \o r : r \in rest}

\* The warnings an operation can add, in the order it adds them; the
\* accelerometer's operations add none.
OpWarnings(fam, op) ==
    IF fam # "imu" THEN {<<>>}
    ELSE CASE op = "configure" ->
                SubSeqs(<<"Flash backup failed during configuration">>)
           [] op = "exit_auto_mode" ->
                SubSeqs(<<"MODE_CTRL read response incomplete",
                          "Flash backup confirmation failed">>)
           [] op = "full_reset" ->
                SubSeqs(<<"MODE_CTRL read response incomplete",
                          "Flash backup confirmation failed",
                          "Flash test reported an error">>)

\* the texts ws, each marked with the operation n that adds it
Marked(ws, n) == [i \in 1..Len(ws) |-> [text |-> ws[i], op |-> n]]

\* SensorController._collect_warning: what is left of the collected list in
\* the CommandResult, each text once
controller_collect_warning(list) == {list[i].text : i \in 1..Len(list)}

\* no configurator yet
NoWarn == [fam |-> "none", op |-> "none", opn |-> 0, list |-> <<>>, added |-> <<>>,
           collected |-> <<>>, ncollect |-> 0, warning |-> {}]

\* the variables no step here touches
notWarnVars == <<sessionVars, cpc, family, sampling_rate, tap_value, wire, backup, settled,
                 success, warnings, cres, idVars, autoVars, chkVars, waited, backed, keep, rd, lg>>

\* SensorConfigurator.__init__ / AccelerometerConfigurator.__init__
NewConfigurator ==
    /\ wn.fam = "none"
    /\ \E fam \in {"imu", "vibration"} : wn' = [NoWarn EXCEPT !.fam = fam]
    /\ UNCHANGED notWarnVars

\* configure, exit_auto_mode or full_reset runs on the configurator
ConfiguratorOperation ==
    /\ wn.fam # "none"
    /\ wn.opn < MaxOps
    /\ \E op \in WarnOps :
          \E ws \in OpWarnings(wn.fam, op) :
             wn' = [wn EXCEPT
                      !.op = op,
                      !.opn = wn.opn + 1,
                      !.list = (IF clears_warnings(wn.fam, op) THEN <<>> ELSE wn.list)
                                   \o Marked(ws, wn.opn + 1),
                      !.added = Marked(ws, wn.opn + 1),
                      !.collected = <<>>,
                      !.ncollect = 0,
                      !.warning = {}]
    /\ UNCHANGED notWarnVars

\* collect_warnings, and what _collect_warning makes of it
collect_warnings ==
    /\ wn.op # "none"
    /\ wn.ncollect < 2
    /\ wn' = [wn EXCEPT !.collected = wn.list,
                        !.list = <<>>,
                        !.ncollect = wn.ncollect + 1,
                        !.warning = controller_collect_warning(wn.list)]
    /\ UNCHANGED notWarnVars

\* the configurator is dropped; _run builds a new one for every command
DropConfigurator ==
    /\ wn.fam # "none"
    /\ wn' = NoWarn
    /\ UNCHANGED notWarnVars

WarnNext ==
    \/ NewConfigurator
    \/ ConfiguratorOperation
    \/ collect_warnings
    \/ DropConfigurator

WarnSpec == Init /\ [][WarnNext]_vars

\* ------------------------------------------------------------ a register read
\* ReadSpec runs one _read_word of the IMU configurator over the IMU's
\* SensorCommunication against the bytes that arrive after the read frame:
\* the register's reply, a telemetry frame of the streaming device, part of a
\* reply, or nothing.

\* bytes a reply or a telemetry frame is made of here
DataBytes == {\h00, \h20, \h41}

\* the 4-byte reply to a read of register a: address, MSB, LSB, CR
RegisterReplies(a) == {<<a, hi, lo, \h0D>> : hi \in DataBytes, lo \in DataBytes}

\* telemetry frames of 13 and 19 bytes: header, payload, CR
TelemetryLengths == {13, 19}
TelemetryFrames ==
    {[i \in 1..n |-> IF i = 1 THEN \h80 ELSE IF i = n THEN \h0D ELSE b] :
        n \in TelemetryLengths, b \in DataBytes}

\* what may arrive after the read frame for register a
Arrivals(a) ==
    [kind : {"reply"}, bytes : RegisterReplies(a)]
        \cup [kind : {"telemetry"}, bytes : TelemetryFrames]
        \cup {[kind |-> "partial", bytes |-> <<a, \h41>>], [kind |-> "nothing", bytes |-> <<>>]}

\* SensorCommunication.read_bytes(length): the first `length` bytes that
\* arrive, TimeoutError when they stop coming before that
read_bytes(stream, length) ==
    IF Len(stream) >= length
    THEN [out |-> "bytes", bytes |-> SubSeq(stream, 1, length)]
    ELSE [out |-> "raise", bytes |-> <<>>]

\* SensorCommunication.send_commands of [0, 0xFE, window], [4, address, 0]:
\* the first frame expects nothing, the second four bytes
send_read_commands(stream) == read_bytes(stream, 4)

\* Variant: a reply is taken for one only if it echoes the address and ends in CR
read_word_checked(a, stream) ==
    LET got == send_read_commands(stream)
        res == got.bytes
    IN  IF got.out = "raise" THEN [out |-> "raise", w |-> 0]
        ELSE IF Len(res) < 4 \/ res[1] # a \/ res[4] # \h0D
        THEN [out |-> "None", w |-> 0]
        ELSE [out |-> "word", w |-> res[Len(res) - 2] * 256 + res[Len(res) - 1]]

\* SensorConfigurator._read_word(address, window) on the bytes that arrive:
\* None under four bytes, else (result[-3] << 8) | result[-2]
read_word_bytes(a, stream) ==
    LET got == send_read_commands(stream)
        res == got.bytes
    IN  IF got.out = "raise" THEN [out |-> "raise", w |-> 0]
        ELSE IF Len(res) < 4 THEN [out |-> "None", w |-> 0]
        ELSE [out |-> "word", w |-> res[Len(res) - 2] * 256 + res[Len(res) - 1]]

\* no read followed
NoRead == [a |-> 0, kind |-> "none", bytes |-> <<>>, out |-> "none", w |-> 0]

\* the variables no read touches
notReadVars == <<sessionVars, cpc, family, sampling_rate, tap_value, wire, backup, settled,
                 success, warnings, cres, idVars, autoVars, chkVars, waited, backed, keep,
                 wn, lg>>

\* SensorConfigurator._read_word(address, 0x01) on an identity register
imu_read_word ==
    /\ rd.kind = "none"
    /\ \E i \in 1..8 :
          \E arr \in Arrivals(IdRegister(i)) :
             LET got == read_word_bytes(IdRegister(i), arr.bytes)
             IN  rd' = [a |-> IdRegister(i), kind |-> arr.kind, bytes |-> arr.bytes,
                        out |-> got.out, w |-> got.w]
    /\ UNCHANGED notReadVars

\* _read_word has returned
ReadReturn ==
    /\ rd.kind # "none"
    /\ rd' = NoRead
    /\ UNCHANGED notReadVars

ReadNext ==
    \/ imu_read_word
    \/ ReadReturn

ReadSpec == Init /\ [][ReadNext]_vars

\* ============================================================ LogBroadcaster
\* LogSpec follows the broadcaster of logging_utils.py with the event loop,
\* which runs publish, attach and detach one coroutine at a time, and one
\* worker thread, whose log records reach publish_sync.  Entries are numbered
\* in the order they enter _history; queue[s] is everything put into the
\* queue of subscriber s so far.  The queues are unbounded and _lock is only
\* ever taken on the loop, so no coroutine is suspended inside publish or
\* attach; the worker thread runs between any two steps of the loop.

\* LogBroadcaster.__init__(max_history=200)
max_history == 200

\* Entries published and subscribers attached in a behaviour.
MaxEntries == 3
MaxSubscribers == 2

\* deque(maxlen=max_history).append
history_append(h, e) ==
    IF Len(h) < max_history THEN Append(h, e) ELSE Append(Tail(h), e)

\* queue.put / queue.put_nowait on the queue of subscriber s
queue_put(q, s, e) == [q EXCEPT ![s] = Append(@, e)]

\* the next value of an iteration over self._subscribers.values() that has
\* got as far as the subscriber `last`: the dict keeps insertion order, and
\* ids are handed out in increasing order
NextSubscriber(last) ==
    LET rest == {s \in lg.subscribers : s > last}
    IN  IF rest = {} THEN 0 ELSE CHOOSE s \in rest : \A r \in rest : s <= r

notLogVars == <<sessionVars, cpc, family, sampling_rate, tap_value, wire, backup, settled,
                success, warnings, cres, idVars, autoVars, chkVars, waited, backed, keep,
                wn, rd>>

\* LogBroadcaster.publish on the loop (the task BroadcastHandler.emit made):
\* the entry is built and appended to _history
PublishAppend ==
    /\ lg.lpc = "idle"
    /\ lg.published < MaxEntries
    /\ lg' = [lg EXCEPT !.published = @ + 1,
                        !.history = history_append(@, lg.published + 1),
                        !.lentry = lg.published + 1,
                        !.llast = 0,
                        !.lpc = "publish"]
    /\ UNCHANGED notLogVars

\* publish, under the lock: for queue in self._subscribers.values():
\* await queue.put(entry)
PublishPut ==
    /\ lg.lpc = "publish"
    /\ LET s == NextSubscriber(lg.llast)
       IN  IF s = 0
           THEN lg' = [lg EXCEPT !.lpc = "idle", !.lentry = 0, !.llast = 0]
           ELSE lg' = [lg EXCEPT !.queue = queue_put(@, s, lg.lentry), !.llast = s]
    /\ UNCHANGED notLogVars

\* LogBroadcaster.attach, under the lock: the id is taken and the new queue
\* is entered into _subscribers
AttachRegister ==
    /\ lg.lpc = "idle"
    /\ lg.next_id <= MaxSubscribers
    /\ lg' = [lg EXCEPT !.lsid = lg.next_id,
                        !.next_id = @ + 1,
                        !.subscribers = @ \cup {lg.next_id},
                        !.queue = Append(@, <<>>),
                        !.lpc = "attach"]
    /\ UNCHANGED notLogVars

\* attach: list(self._history)
AttachSnapshot ==
    /\ lg.lpc = "attach"
    /\ lg' = [lg EXCEPT !.lsnap = lg.history, !.lpc = "replay"]
    /\ UNCHANGED notLogVars

\* attach: for entry in ...: await queue.put(entry); then the lock is
\* released and (id, queue) returned
AttachReplay ==
    /\ lg.lpc = "replay"
    /\ IF lg.lsnap = <<>>
       THEN lg' = [lg EXCEPT !.lpc = "idle", !.lsid = 0]
       ELSE lg' = [lg EXCEPT !.queue = queue_put(@, lg.lsid, Head(lg.lsnap)),
                             !.lsnap = Tail(@)]
    /\ UNCHANGED notLogVars

\* LogBroadcaster.detach(subscriber_id)
Detach ==
    /\ lg.lpc = "idle"
    /\ \E s \in lg.subscribers : lg' = [lg EXCEPT !.subscribers = @ \ {s}]
    /\ UNCHANGED notLogVars

\* BroadcastHandler.emit in a thread without a running loop:
\* publish_sync builds the entry and appends it to _history
PublishSyncAppend ==
    /\ lg.wpc = "idle"
    /\ lg.published < MaxEntries
    /\ lg' = [lg EXCEPT !.published = @ + 1,
                        !.history = history_append(@, lg.published + 1),
                        !.wentry = lg.published + 1,
                        !.wpc = "check"]
    /\ UNCHANGED notLogVars

\* publish_sync: if self._subscribers: the iteration over values() starts
PublishSyncCheck ==
    /\ lg.wpc = "check"
    /\ IF lg.subscribers = {}
       THEN lg' = [lg EXCEPT !.wpc = "idle", !.wentry = 0]
       ELSE lg' = [lg EXCEPT !.wpc = "put", !.wlast = 0,
                             !.wsize = Cardinality(lg.subscribers)]
    /\ UNCHANGED notLogVars

\* publish_sync: one turn of for queue in self._subscribers.values():
\* queue.put_nowait(entry).  A dict whose size changed since the iteration
\* began raises RuntimeError, which emit hands to handleError.
PublishSyncPut ==
    /\ lg.wpc = "put"
    /\ LET s == NextSubscriber(lg.wlast)
       IN  IF Cardinality(lg.subscribers) # lg.wsize
           THEN lg' = [lg EXCEPT !.wpc = "idle", !.wentry = 0, !.wlast = 0, !.wsize = 0,
                                 !.errors = @ + 1]
           ELSE IF s = 0
           THEN lg' = [lg EXCEPT !.wpc = "idle", !.wentry = 0, !.wlast = 0, !.wsize = 0]
           ELSE lg' = [lg EXCEPT !.queue = queue_put(@, s, lg.wentry), !.wlast = s]
    /\ UNCHANGED notLogVars

LogNext ==
    \/ PublishAppend
    \/ PublishPut
    \/ AttachRegister
    \/ AttachSnapshot
    \/ AttachReplay
    \/ Detach
    \/ PublishSyncAppend
    \/ PublishSyncCheck
    \/ PublishSyncPut

LogSpec == Init /\ [][LogNext]_vars

\* ---------------------------------------------------------------- claims
OpPcs == {"run_op_q", "run_op"}

\* C1: at most one operation wrapped by SerialSession.run is under way at any
\* moment, whatever connect, disconnect and run calls interleave: while one
\* run has handed its operation to the executor, that run holds the lock and
\* no other run has started (or queued) its operation.
C1_OneOperationAtATime ==
    \A t \in Tasks :
        pc[t] \in OpPcs =>
            /\ lockHolder = t
            /\ \A u \in Tasks \ {t} : pc[u] \notin OpPcs

\* a second run waits for the lock while the first one's operation executes
C1_Witness ==
    \E t, u \in Tasks : pc[t] = "run_op" /\ pc[u] = "run_lock"

\* C2: while the wrapped operation of run executes, no drain thread is in a
\* read on the session's Link, also when the join of _stop_drain_locked
\* timed out on a thread blocked in its read.
C2_DrainExcluded ==
    \A t \in Tasks :
        pc[t] = "run_op" => (drainThread /= "read" /\ orphans["read"] = 0)

\* C3: when run has executed its operation, whether that returned or raised,
\* a drain thread is tracked and alive as the call returns.
C3_DrainRestarted ==
    \A t \in Tasks :
        (pc[t] = "done" /\ obs[t].opRan) => drainThread /= "none"

\* a run whose operation raised has just returned to its caller
C3_Witness ==
    \E t \in Tasks : pc[t] = "done" /\ obs[t].opRan /\ obs[t].raised

\* C4: connect to the port and baud the session is already open on calls
\* neither close nor open; a connect that finds the session open on another
\* port or baud closes that Link before it opens the new one, and no Link the
\* session let go of is still open.
C4_ConnectIdempotent ==
    /\ \A t \in Tasks :
         (pc[t] = "done" /\ call[t].kind = "connect" /\ snap[t].same) =>
            (obs[t].opens = 0 /\ obs[t].closes = 0 /\ result[t] = "ok")
    /\ \A t \in Tasks :
         (pc[t] = "done" /\ call[t].kind = "connect" /\ ~snap[t].same
          /\ snap[t].hadOpen) =>
            (obs[t].closes = 1 /\ obs[t].opens = 1)
    /\ \A t \in Tasks :
         pc[t] = "conn_open" =>
            (~comm.open /\ (snap[t].hadOpen => obs[t].closes >= 1))
    /\ leaked = {}

\* a connect with the arguments of the open session has just returned
C4_Witness ==
    \E t \in Tasks : pc[t] = "done" /\ call[t].kind = "connect" /\ snap[t].same

\* C5: the operation of run always executes against an open Link to the
\* session's recorded port and baud; a run that found no open Link but a
\* recorded port has opened a new Link to it before the operation runs.
C5_RunReconnects ==
    /\ \A t \in Tasks :
         pc[t] \in OpPcs =>
            /\ CommOpen /\ comm.port = sport /\ comm.baud = sbaud
            /\ (~snap[t].hadOpen => (obs[t].opens = 1 /\ ~snap[t].noPort))
    /\ \A t \in Tasks :
         (pc[t] = "done" /\ call[t].kind \in RunOps /\ ~snap[t].hadOpen
          /\ ~snap[t].noPort) => obs[t].opens = 1

\* the operation executes on a Link that this run had to open itself
C5_Witness ==
    \E t \in Tasks : pc[t] = "run_op" /\ ~snap[t].hadOpen /\ obs[t].opens = 1

\* the call found no Link connected and no port recorded
NotConnectedAtCall(t) ==
    IF call[t].kind = "detect" THEN call[t].port = None
    ELSE snap[t].noPort /\ ~snap[t].hadOpen

\* C6: each of detect, configure, exit_auto, full_reset and check_auto_mode,
\* called with no Link connected and no port known, hands its caller a
\* not-connected error and does no I/O.
C6_NotConnectedSignalled ==
    \A t \in Tasks :
        (pc[t] = "done" /\ call[t].kind \in ControllerOps /\ NotConnectedAtCall(t)) =>
            (result[t] = "NotConnected" /\ ~obs[t].io)

\* the number of Links open on port p: the session's, any it let go of while
\* open, and the private Links of detect calls
OpenOn(p) ==
    (IF CommOpen /\ comm.port = p THEN 1 ELSE 0)
    + Cardinality({l \in leaked : l.port = p})
    + Cardinality({t \in Tasks : fresh[t] /\ call[t].port = p})

\* caller t's operation is exchanging frames with the sensor
IssuingBytes(t) == pc[t] \in {"run_op", "det_io"}

\* ... and does so as the operation of SerialSession.run, holding the lock
InsideRun(t) == pc[t] = "run_op" /\ lockHolder = t

\* C7: every command byte goes over the wire inside SerialSession.run with
\* the session lock held, and no two Links to one port are open at once,
\* detect running next to connect or another operation included.
C7_LinkOwnedBySession ==
    /\ \A t \in Tasks : IssuingBytes(t) => InsideRun(t)
    /\ \A p \in Ports : OpenOn(p) <= 1

\* ------------------------------------------------------ claims on configure
\* the frame f has been sent
Sent(f) == \E i \in 1..Len(wire) : wire[i] = f

\* the data bytes written to address a so far
Written(a) == {wire[i][3] : i \in {j \in 1..Len(wire) : wire[j][1] = 0 /\ wire[j][2] = a}}

\* the rate argument is no key of the running configurator's rate table
UnsupportedRate ==
    \/ family = "imu" /\ sampling_rate \notin ImuRates
    \/ family = "accelerometer" /\ sampling_rate \notin AccRates

\* C8: configure fails whenever its flash backup failed (poll timeout,
\* FLASH_BU_ERR set, unreadable status): no configure that has returned after
\* a failed flash backup reports success, for the IMU through the controller's
\* CommandResult and for the accelerometer through its return value; and a
\* CommandResult with success=true carries requires_restart=true.
C8_BackupFailureFailsConfigure ==
    /\ (cpc = "done" /\ family = "imu" /\ backup = "failed") => ~cres.success
    /\ (cpc = "done" /\ family = "accelerometer" /\ backup = "failed") => ~success
    /\ (cpc = "done" /\ family = "imu" /\ cres.success) => cres.requires_restart

\* C9: configure with a sampling rate that is no key of the rate table never
\* writes the sampling-rate register (0x85), never issues FLASH_BACKUP
\* (0x8A <- 0x08), never gets as far as the flash backup, and returns failure.
C9_UnsupportedRateRejected ==
    UnsupportedRate =>
        /\ Written(\h85) = {}
        /\ ~Sent(W(\h8A, \h08))
        /\ cpc /= "backup" /\ backup = "none"
        /\ cpc \in {"ret", "done"} => ~success
        /\ (cpc = "done" /\ family = "imu") => ~cres.success

\* an unsupported rate went through reset and was turned down
C9_Witness ==
    /\ UnsupportedRate
    /\ family = "imu"
    /\ cpc = "done"
    /\ Sent(W(\hFF, \hFF))
    /\ ~cres.success

\* configure_registers has sent its writes
RegistersProgrammed == cpc = "backup" \/ backup /= "none"

\* C10: IMU configure with a supported rate r and tap_value None writes
\* SMPL_CTRL (0x85) with the table's DOUT_RATE for r, TAP (0x86) with the
\* table's minimum tap for r and UART_CTRL (0x88) with 0x03, and nothing else
\* to these three; a successful result carries requires_restart=true; for
\* r = 125 the bytes are 0x04, 16 and 0x03.
C10_DefaultTapConfigure ==
    (family = "imu" /\ sampling_rate \in ImuRates /\ tap_value = <<>>) =>
        /\ Written(\h85) \subseteq {SAMPLING_RATE_CONFIG(sampling_rate)[1]}
        /\ Written(\h86) \subseteq {SAMPLING_RATE_CONFIG(sampling_rate)[2]}
        /\ Written(\h88) \subseteq {3}
        /\ RegistersProgrammed =>
              /\ Written(\h85) /= {} /\ Written(\h86) /= {} /\ Written(\h88) /= {}
              /\ sampling_rate = Sps(125) =>
                    Sent(<<0, 133, 4>>) /\ Sent(<<0, 134, 16>>) /\ Sent(<<0, 136, 3>>)
        /\ (cpc = "done" /\ cres.success) =>
              cres.requires_restart /\ RegistersProgrammed

\* configure(sampling_rate=125, tap_value=None) has returned success
C10_Witness ==
    /\ family = "imu"
    /\ sampling_rate = Sps(125)
    /\ tap_value = <<>>
    /\ cpc = "done"
    /\ cres.success
    /\ backup = "ok"

\* C11: for every supported IMU sampling rate and every integer tap_value, the
\* one byte configure_registers writes to TAP (0x86) is one of 0, 2, 4, 8, 16,
\* 32, 64, 128, is not below the rate's minimum tap, is the requested value
\* when that is supported and not below the minimum, and is in every case a
\* supported value nearest to the request raised to the minimum.
C11_TapSnapped ==
    (family = "imu" /\ sampling_rate \in ImuRates /\ tap_value /= <<>>
       /\ RegistersProgrammed) =>
        LET min_tap == SAMPLING_RATE_CONFIG(sampling_rate)[2]
            req == tap_value[1]
            coerced == IF req < min_tap THEN min_tap ELSE req
        IN  \E b \in {0, 2, 4, 8, 16, 32, 64, 128} :
                /\ Written(\h86) = {b}
                /\ b >= min_tap
                /\ (req \in {0, 2, 4, 8, 16, 32, 64, 128} /\ req >= min_tap) => b = req
                /\ \A y \in {0, 2, 4, 8, 16, 32, 64, 128} :
                       Abs(b - coerced) <= Abs(y - coerced)

\* a request of 100 at 125 Sps (minimum 16) went out as 128
C11_Witness ==
    /\ family = "imu"
    /\ sampling_rate = Sps(125)
    /\ tap_value = <<100>>
    /\ cpc = "backup"
    /\ Sent(W(\h86, 128))

\* ---------------------------------------------------- claims on identity
\* how often the frames fr read the register at a
ReadsOf(fr, a) == Cardinality({j \in 1..Len(fr) : fr[j] = R(a)})

\* the frames fr re-enter configuration mode (MODE_CTRL <- 0x02 in window 0)
Reentered(fr) == \E j \in 1..Len(fr) : fr[j] = W(\h83, \h02)

\* the identity word whose round of the register loop ended last (0: none)
LastWord ==
    IF ipc = "read" /\ widx > 1 THEN widx - 1
    ELSE IF ipc = "finish" THEN 8
    ELSE IF ipc = "ret" /\ info.out /= "dict" /\ widx \in 1..8 THEN widx
    ELSE 0

\* detect_identity gave up at an identity word
FailedAtWord == ipc = "ret" /\ info.out \in {"None", "raise"} /\ widx \in 1..8

\* C12: in detect_identity each of the 8 identity word reads gets exactly one
\* retry: no word is read more than twice, a second read comes after
\* configuration mode was re-entered, and detect_identity gives up at word i
\* only after two reads of word i have failed.
C12_EveryWordRetriedOnce ==
    LastWord /= 0 =>
        LET n == ReadsOf(idwire, IdRegister(LastWord))
        IN  /\ n \in {1, 2}
            /\ n = 2 => Reentered(idwire)
            /\ FailedAtWord => n = 2

\* C13: SensorController.detect, once all 8 identity reads have succeeded and
\* detect_identity has returned its dict, reports failure when the decoded raw
\* product id and the decoded serial number both have fewer than 4
\* characters, and success when at least one of them has 4 or more.
C13_IdentityLengthCheck ==
    (ipc = "done" /\ isensor = "imu" /\ info.out = "dict") =>
        /\ Len(words) = 8
        /\ (Len(info.product_id_raw) < 4 /\ Len(info.serial_number) < 4)
              => dres = "failure"
        /\ (Len(info.product_id_raw) >= 4 \/ Len(info.serial_number) >= 4)
              => dres = "success"

\* eight words were read, "AAA" and "A A" came out of them, detect failed
C13_Witness ==
    /\ ipc = "done"
    /\ isensor = "imu"
    /\ info.out = "dict"
    /\ Len(words) = 8
    /\ info.product_id_raw = <<65, 65, 65>>
    /\ info.serial_number = <<65, 32, 65>>
    /\ dres = "failure"

\* ------------------------------------- claims on exit_auto and full_reset
\* the operation has sent the frame f
ASent(f) == \E i \in 1..Len(awire) : awire[i] = f

\* C14: exit_auto changes only the AUTO_START and UART_AUTO bits of UART_CTRL:
\* every byte it writes to UART_CTRL(L) (0x88) is the low byte it read from
\* the sensor before, with bits [1:0] cleared.
C14_UartReadModifyWrite ==
    \A pr \in uart.writes :
        /\ pr[1] /= -1
        /\ pr[2] = pr[1] - (pr[1] % 4)

\* C15: exit_auto re-reads UART_CTRL after its write and fails hard otherwise:
\* FLASH_BACKUP (0x8A <- 0x08) is not issued and exit_auto_mode does not
\* return True unless a read-back of UART_CTRL showed bits [1:0] clear.
C15_VerifiedBeforePersist ==
    /\ ASent(W(\h8A, \h08)) => uart.verified
    /\ sub.exit = "True" => uart.verified

\* an exit_auto call with persist has returned after its flash backup failed
\* and without an exception from the link ending it
ExitAutoBackupFailed ==
    /\ aop = "exit_auto"
    /\ persist_disable_auto
    /\ sub.backup = "failed"
    /\ sub.exit /= "raise"
    /\ apc = "done"

\* C16: in exit_auto with persist a failed flash backup is not fatal: the call
\* returns success, and the result of the controller carries a warning.
C16_BackupFailureIsWarning ==
    ExitAutoBackupFailed =>
        /\ aret
        /\ asensor = "imu" => ares.success /\ ares.warning

HardReset == IF asensor = "imu" THEN W(\h8A, \h80) ELSE W(\h8A, \h04)

\* the stages of full_reset the claim orders (the IMU's flash test left out)
OrderedPhases == SelectSeq(phases, LAMBDA ph : ph /= "flash_test")

\* C18: full_reset with persist_disable_auto=true goes through exit-auto,
\* reset, the hard-reset command and the stabilization delay in this order,
\* returns True only after all four, and never sends the hard-reset command
\* when exit_auto_mode returned failure (full_reset then returns False).
C18_FullResetOrder ==
    (aop = "full_reset" /\ persist_disable_auto) =>
        /\ OrderedPhases
              = SubSeq(<<"exit_auto", "reset", "hard_reset", "delay">>, 1, Len(OrderedPhases))
        /\ ASent(HardReset) => (sub.exit = "True" /\ Len(OrderedPhases) >= 3)
        /\ sub.exit \in {"False", "raise"} =>
              (~ASent(HardReset) /\ apc \in {"ret", "done"} /\ ~aret)
        /\ (apc \in {"ret", "done"} /\ aret) => Len(OrderedPhases) = 4

\* the IMU's full_reset went through every stage and reported success
C18_Witness ==
    /\ aop = "full_reset"
    /\ asensor = "imu"
    /\ persist_disable_auto
    /\ apc = "done"
    /\ phases = <<"exit_auto", "reset", "flash_test", "hard_reset", "delay">>
    /\ ASent(W(\h8A, \h80))
    /\ ares.success

\* C19: a flash-backup failure is fatal for full_reset: whenever the flash
\* backup inside full_reset failed, full_reset returns False.
C19_BackupFailureFailsReset ==
    (aop = "full_reset" /\ sub.backup = "failed" /\ apc \in {"ret", "done"}) => ~aret

\* C20: in the IMU's full_reset a failed flash self-test never makes the
\* operation fail: software_reset is still called, the warning is in the
\* result, and the result is success exactly when software_reset reported
\* ready (SOFT_RST then having been sent).
C20_FlashTestFailureIsWarning ==
    (aop = "full_reset" /\ asensor = "imu" /\ sub.flash_test = "failed") =>
        /\ apc \in {"ret", "done"} => sub.software_reset /= "none"
        /\ sub.software_reset = "ready" => ASent(W(\h8A, \h80))
        /\ apc = "done" =>
              /\ ares.warning
              /\ ares.success <=> sub.software_reset = "ready"

\* the flash test failed and full_reset still reported success, with a warning
C20_Witness ==
    /\ aop = "full_reset"
    /\ asensor = "imu"
    /\ sub.flash_test = "failed"
    /\ sub.backup = "ok"
    /\ apc = "done"
    /\ ares.success
    /\ ares.warning

\* ------------------------------------------------------ check_auto_mode claims

\* f is a window-select write
WindowSelect(f) == f[1] = 0 /\ f[2] = \hFE

\* f asks for a register
ReadFrame(f) == f[1] = 4

\* the read frames among those sent
KReads == {i \in 1..Len(kwire) : ReadFrame(kwire[i])}

VoteRules(a, v, s) ==
    CASE a >= 2 -> "True"
      [] a < 2 /\ v >= 2 -> "False"
      [] OTHER ->
         CASE a >= 1 /\ s >= 2 -> "True"
           [] ~(a >= 1 /\ s >= 2) /\ s >= 3 /\ v = 0 -> "True"
           [] OTHER ->
              CASE v >= 1 /\ s = 0 -> "False"
                [] ~(v >= 1 /\ s = 0) /\ a >= 1 -> "True"
                [] OTHER ->
                   CASE v >= 1 -> "False"
                     [] v < 1 /\ s >= 1 -> "True"
                     [] OTHER -> "False"

\* C22: whatever the counts (a valid-auto, v valid-not-auto, s streaming) of a
\* finished IMU check, a + v + s <= 5, its answer is that of the first rule
\* that matches: a>=2 true; v>=2 false; a>=1 and s>=2 true; s>=3 and v=0 true;
\* v>=1 and s=0 false; a>=1 true; v>=1 false; s>=1 true; otherwise false.
C22_VoteFollowsRules ==
    (kpc = "ret" /\ ksensor = "imu") =>
        /\ auto_mode_reads + valid_reads + streaming_detected <= 5
        /\ kret = VoteRules(auto_mode_reads, valid_reads, streaming_detected)

\* two reads with the AUTO bit and two without: the first rule wins
C22_Witness ==
    /\ kpc = "ret"
    /\ ksensor = "imu"
    /\ auto_mode_reads = 2
    /\ valid_reads = 2
    /\ kret = "True"

\* C23: every attempt of the IMU's check whose reply is too long, too short
\* or an exception is counted as streaming, and a check with three such
\* attempts or more and no full reply answers true.
C23_NoiseCountedAsStreaming ==
    (kpc = "ret" /\ ksensor = "imu") =>
        /\ streaming_detected = noisy
        /\ (noisy >= 3 /\ auto_mode_reads = 0 /\ valid_reads = 0) => kret = "True"

\* --------------------------------------------------------------- wait claims

\* the bit each wait polls for
WaitBit(fn) ==
    CASE fn = "imu_wait_until_ready" -> 10
      [] fn = "acc_wait_until_ready" -> 0
      [] fn = "wait_for_filter_settle" -> 5

\* the polls, within the timeout, that would see the bit clear
ClearPolls == {i \in 1..MaxPolls : /\ waited.rep[i].k = "word"
                                   /\ Bit(waited.rep[i].w, WaitBit(waited.fn)) = 0}

\* C24: a polling wait (ready wait, filter-settle wait) ends with a boolean
\* whatever its polls bring: false when no poll within the timeout sees the
\* bit clear, every poll raising included; true on the first poll that sees
\* it clear, with no poll after that one.
C24_WaitsEndOnFirstClear ==
    waited.fn # "none" =>
        /\ waited.ret \in BOOLEAN
        /\ waited.ret = (ClearPolls # {})
        /\ \A i \in ClearPolls :
              (\A j \in ClearPolls : i <= j) => Len(waited.frames) = 2 * i
        /\ ClearPolls = {} => Len(waited.frames) = 2 * MaxPolls

\* a wait whose first poll raised and whose second saw the bit clear
C24_Witness ==
    /\ waited.fn = "imu_wait_until_ready"
    /\ waited.rep[1].k = "raise"
    /\ waited.rep[2].k = "word"
    /\ Bit(waited.rep[2].w, 10) = 0
    /\ waited.ret
    /\ Len(waited.frames) = 4

\* ------------------------------------------------------- flash_backup claims

\* poll i is made and sees FLASH_BACKUP (bit 3) clear: no earlier poll raised
\* or saw it clear
PollSeesClear(i) ==
    /\ i \in 1..MaxPolls
    /\ backed.rep[i].k = "word"
    /\ Bit(backed.rep[i].w, 3) = 0
    /\ \A j \in 1..(i - 1) :
          /\ backed.rep[j].k # "raise"
          /\ ~(backed.rep[j].k = "word" /\ Bit(backed.rep[j].w, 3) = 0)

\* the DIAG_STAT read after poll i came back whole with FLASH_BU_ERR = 0
DiagClean(i) == backed.rep[i + 1].k = "word" /\ Bit(backed.rep[i + 1].w, 0) = 0

\* C25: flash_backup ends with a boolean whatever the link does, and with true
\* only if the FLASH_BACKUP command was written, a poll within the timeout saw
\* the bit clear and the DIAG_STAT read after it was a full reply with
\* FLASH_BU_ERR = 0; a timeout, the error bit, an unreadable status and an
\* I/O exception all give false.
C25_BackupTrueOnlyWhenVerified ==
    backed.fn # "none" =>
        /\ backed.ret \in BOOLEAN
        /\ backed.ret = (backed.up /\ \E i \in 1..MaxPolls : PollSeesClear(i) /\ DiagClean(i))
        /\ backed.ret =>
              /\ Len(backed.frames) >= 2
              /\ SubSeq(backed.frames, 1, 2) = << W(\hFE, \h01), W(\h8A, \h08) >>
              /\ backed.frames[Len(backed.frames)] = R(\h04)

\* a backup that saw the bit still set, then clear, then a clean DIAG_STAT
C25_Witness ==
    /\ backed.fn = "imu"
    /\ backed.ret
    /\ PollSeesClear(2)
    /\ DiagClean(2)

\* ------------------------------------------------------------- detect claims

\* detect's own part, between its disconnect and its reconnect
DetPcs == {"det_sleep", "det_open", "det_io", "det_fin"}

\* the positions of session.connect
ConnPcs == {"conn_lock", "conn_join", "conn_close", "conn_open"}

\* task t is in a detect call that got past the port check
Detecting(t) == call[t].kind = "detect" /\ result[t] # "NotConnected"

\* what holds at every moment of a detect call
DetectOrdered(t) ==
    /\ pc[t] \in DetPcs => /\ snap[t].hadOpen => obs[t].closes = 1
                           /\ obs[t].reconnects = 0
    /\ tries[t] <= max_retries
    /\ fresh[t] => pc[t] = "det_io"
    /\ pc[t] \in ConnPcs => obs[t].reconnects = 1
    /\ pc[t] = "done" => /\ result[t] \in {"ok", "fail"}
                         /\ obs[t].reconnects = 1

\* from the end of the fresh connection on, a step leaves the result alone
DetectResultKept(t) ==
    (Detecting(t) /\ pc[t] \in ConnPcs \cup {"det_fin"} /\ pc'[t] # "idle")
        => result'[t] = result[t]

\* C26: detect closes the session's Link, opens a Link of its own in at most 3
\* attempts, has closed it again on every way out, and then calls
\* session.connect with the port and baud it started from exactly once,
\* whether the identity was read, the Link never opened or the read failed;
\* a reconnect that fails leaves the detection result as it was.
C26_DetectRestoresSession ==
    /\ [](\A t \in Tasks : Detecting(t) => DetectOrdered(t))
    /\ [][\A t \in Tasks : DetectResultKept(t)]_vars

\* a detect that failed its three opens, reconnected once, and whose
\* reconnect could not open the port either
C26_Witness ==
    \E t \in Tasks :
        /\ pc[t] = "done"
        /\ call[t].kind = "detect"
        /\ result[t] = "fail"
        /\ tries[t] = max_retries
        /\ obs[t].reconnects = 1
        /\ obs[t].opens = 1
        /\ comm.obj
        /\ ~comm.open

\* ------------------------------------------------- identity-register claims

\* C27: at every supported sampling rate, configure and the detect after it
\* write to no identity register (window 1, 0x6A-0x71 and 0x74-0x7B): the
\* device holds the identity words it held before configure, and the eight
\* words detect reads are those words.
C27_IdentityWordsKept ==
    keep.stage # "none" =>
        /\ keep.dev.id = keep.held
        /\ (keep.stage = "detected" /\ keep.read # <<>>) => keep.read = keep.held

\* a device configured at 1000 Sps, backup included, then read by detect
C27_Witness ==
    /\ keep.stage = "detected"
    /\ keep.rate = Sps(1000)
    /\ Len(keep.read) = 8
    /\ keep.read = keep.held

\* ------------------------------------------------------------ warning claims

\* C28: warnings are drained once per operation: the collect_warnings after
\* an operation returns every warning added since that operation started and
\* leaves the list empty, a second collect_warnings returns nothing, and no
\* warning an earlier operation on the same configurator recorded is in what
\* a later operation's collect returns.
C28_WarningsDrainedPerOperation ==
    /\ wn.ncollect >= 1 => wn.list = <<>>
    /\ wn.ncollect = 1 =>
          /\ wn.collected = wn.added
          /\ \A i \in 1..Len(wn.collected) : wn.collected[i].op = wn.opn
          /\ wn.warning = {wn.added[i].text : i \in 1..Len(wn.added)}
    /\ wn.ncollect = 2 => wn.collected = <<>> /\ wn.warning = {}

\* an exit_auto_mode whose two warnings were left uncollected, then a
\* configure with its own, collected
C28_Witness ==
    /\ wn.fam = "imu"
    /\ wn.op = "configure"
    /\ wn.opn = 2
    /\ wn.ncollect = 1
    /\ wn.collected = << [text |-> "Flash backup failed during configuration", op |-> 2] >>

\* ---------------------------------------------------- configure-order claims

\* wire[i] programs a sampling-rate, filter/tap, burst or UART-auto register
ProgramsRegister(i) ==
    \/ wire[i][2] \in {\h85, \h86, \h8C, \h8D, \h8F}
    \/ wire[i] = W(\h88, \h03)

\* the ConfigMode step is on the wire before position i: configuration mode
\* commanded in window 0, then UART_AUTO / AUTO_START cleared in window 1
ConfigModeBefore(i) ==
    \E j \in 1..(i - 1) :
        /\ j >= 2
        /\ wire[j - 1] = W(\hFE, \h00)
        /\ wire[j] = W(\h83, \h02)
        /\ \E k \in (j + 2)..(i - 1) :
              /\ wire[k - 1] = W(\hFE, \h01)
              /\ wire[k] = W(\h88, \h00)

\* C29: in configure the ConfigMode step (configuration-mode command in
\* window 0, then UART_AUTO / AUTO_START cleared in window 1) has been sent
\* before the first sampling-rate, filter/tap, burst or UART-auto write.
C29_ConfigModeBeforeRegisters ==
    \A i \in 1..Len(wire) : ProgramsRegister(i) => ConfigModeBefore(i)

\* ------------------------------------------------------- register-read claims

\* C30: a register read never takes streaming telemetry for a register reply:
\* when the bytes that arrive after the read frame are those of a 13- or
\* 19-byte telemetry frame, _read_word reports a failure and returns no
\* 16-bit value made of telemetry bytes.
C30_TelemetryIsNoReply ==
    rd.kind = "telemetry" => rd.out # "word"

\* C31: in the accelerometer's configure a filter-settle wait that timed out
\* does not end the call: the flash backup command is sent after it, and
\* configure returns True exactly when that flash backup succeeded.
C31_FilterTimeoutIsWarnOnly ==
    (family = "accelerometer" /\ settled = "timeout") =>
        /\ cpc \in {"backup", "ret", "done"}
        /\ cpc \in {"ret", "done"} =>
              /\ backup /= "none"
              /\ success <=> backup = "ok"
              /\ (\E i \in 1..Len(wire) : wire[i] = W(\h8A, \h08)) \/ backup = "failed"

\* a configure whose filter wait timed out has returned True after a good
\* flash backup
C31_Witness ==
    /\ family = "accelerometer"
    /\ settled = "timeout"
    /\ cpc = "done"
    /\ backup = "ok"
    /\ success
    /\ \E i \in 1..Len(wire) : wire[i] = W(\h8A, \h08)

\* drain threads alive: the one self._drain_thread refers to and those whose
\* join timed out
AliveDrains ==
    (IF drainThread /= "none" THEN 1 ELSE 0)
    + orphans["top"] + orphans["read"] + orphans["stale"]

\* C32: at most one drain thread of the session is alive at any time,
\* whatever connect, run and disconnect calls were made, also after a join in
\* _stop_drain_locked timed out on a thread blocked in a read.
C32_OneDrainThread == AliveDrains <= 1

\* positions of a call between its start and its return
LockPcs == {"conn_lock", "disc_lock", "run_lock"}
Returned(t) == pc[t] \in {"idle", "done"}

\* C33: connect, disconnect and run release the session lock on every way
\* out (normal return, failed open, exception of the operation), so a caller
\* that has returned never holds it, and, every wrapped operation
\* terminating, every call that waits for the lock or holds it completes.
C33_LockReleasedCallsComplete ==
    /\ [](\A t \in Tasks : Returned(t) => lockHolder /= t)
    /\ \A t \in Tasks : (~Returned(t)) ~> (pc[t] = "done")

\* a connect whose open failed has returned while a later call queues for
\* the lock, which is free again
C33_Witness ==
    \E t, u \in Tasks :
        /\ pc[t] = "done"
        /\ result[t] \in {"OpenFailed", "OpError"}
        /\ pc[u] \in LockPcs
        /\ lockHolder = None

\* ------------------------------------------------------ detect, port and baud

\* C34: when detect returns, with the identity read or not, and also when
\* its closing session.connect could not open the port, the session's port
\* and baud are the ones it had when detect was called.
C34_DetectKeepsPortAndBaud ==
    \A t \in Tasks :
        (Detecting(t) /\ pc[t] = "done") =>
            /\ sport = call[t].port
            /\ sbaud = call[t].baud

\* a detect that read the identity and whose reconnect then failed to open
\* the port: the port and a baud other than the default are still recorded
C34_Witness ==
    \E t \in Tasks :
        /\ Detecting(t)
        /\ pc[t] = "done"
        /\ result[t] = "ok"
        /\ comm.obj
        /\ ~comm.open
        /\ sport = call[t].port
        /\ sport # None
        /\ sbaud = call[t].baud
        /\ sbaud # DEFAULT_BAUD_RATE

\* ------------------------------------------------------- connect, failed open

\* task t is at the return of a connect whose open was refused
ConnectFailed(t) ==
    call[t].kind = "connect" /\ pc[t] = "done" /\ result[t] = "OpenFailed"

\* what the session is left with by the failed connect of t
LeftDisconnected(t) ==
    /\ ~is_connected
    /\ comm = NewLink(call[t].port, call[t].baud)
    /\ leaked = {}
    /\ drainThread = "none"
    /\ orphans["read"] = 0
    /\ orphans["top"] = 0
    /\ sport = call[t].port
    /\ sbaud = call[t].baud

\* a run that takes the lock on a session with a recorded port and no open
\* Link goes to open a new Link on that port
RunRetriesOpen(u) ==
    (/\ pc[u] \in {"idle", "run_lock"}
     /\ pc'[u] \notin {"idle", "run_lock"}
     /\ call'[u].kind \in RunOps
     /\ ~CommOpen
     /\ sport # None)
        => /\ pc'[u] = "run_open"
           /\ comm' = NewLink(sport, sbaud)
           /\ sport' = sport
           /\ sbaud' = sbaud

C36_RejectedRateWritesNothing ==
    UnsupportedRate =>
        /\ ~Sent(W(\h88, \h03))
        /\ Written(\h8C) = {}
        /\ Written(\h8D) = {}
        /\ Written(\h8F) = {}
        /\ Written(\h85) = {}
        /\ Written(\h86) = {}

\* C37: the IMU's check_auto_mode errs toward auto: a check in which at
\* least one attempt read a full reply with the AUTO bit set does not answer
\* false, unless two or more attempts read a full reply with the bit clear.
C37_ConservativeTowardAuto ==
    (kpc = "ret" /\ ksensor = "imu" /\ auto_mode_reads >= 1 /\ valid_reads < 2)
        => kret # "False"

\* C38: exit_auto called with persist=false never sends the FLASH_BACKUP
\* command (0x08 written to GLOB_CMD, address 0x8A), whatever its reads
\* bring: no such frame is on the wire and no flash backup has run.
C38_NoBackupWithoutPersist ==
    (aop = "exit_auto" /\ ~persist_disable_auto) =>
        /\ ~ASent(W(\h8A, \h08))
        /\ apc # "exit_backup"
        /\ sub.backup = "none"

\* an IMU exit_auto without persist that cleared UART_CTRL and returned True
C38_Witness ==
    /\ aop = "exit_auto"
    /\ asensor = "imu"
    /\ ~persist_disable_auto
    /\ apc = "done"
    /\ aret
    /\ ASent(W(\h88, \h00))
    /\ ~ASent(W(\h8A, \h08))

\* ------------------------------------------------------------- log claims

\* entry e is in the queue of subscriber s
Delivered(s, e) == \E i \in 1..Len(lg.queue[s]) : lg.queue[s][i] = e

\* the queue of s holds no entry twice and holds its entries in the order
\* they were published
OnceInOrder(s) ==
    \A i, j \in 1..Len(lg.queue[s]) : i < j => lg.queue[s][i] < lg.queue[s][j]

\* C39: every entry published reaches each attached subscriber exactly once
\* and in publication order, also when publish_sync in a worker thread runs
\* while attach replays the history on the event loop: no queue holds an
\* entry twice or out of order, and once the loop and the worker are idle
\* every published entry is in the queue of every attached subscriber.
C39_DeliveredOnceInOrder ==
    /\ \A s \in 1..Len(lg.queue) : OnceInOrder(s)
    /\ (lg.lpc = "idle" /\ lg.wpc = "idle") =>
          \A s \in lg.subscribers : \A e \in 1..lg.published : Delivered(s, e)

============================================================================
